---------------------------- MODULE Spec2Model ----------------------------
(***************************************************************************)
(* TurboChess: the position, the attack/pin analyser, the legal move       *)
(* generator and the make/undo engine of src/src/lib.rs, with the move     *)
(* encoding and bit helpers of src/src/types.rs.                           *)
(*                                                                         *)
(* A bitboard (u64) is the set of its set bits, a subset of 0..63.         *)
(* A castling field (u8) is the set of its set bit values, a subset of     *)
(* {1,2,4,8}.  The Zobrist hash is the set of keys <<color,piece,square>>  *)
(* that have been XORed into it an odd number of times (XOR is symmetric   *)
(* difference); the keys are distinct non-zero constants.                  *)
(***************************************************************************)
EXTENDS Integers, Sequences, FiniteSets, TLC

(***************************************************************************)
(* Program constants (types.rs)                                            *)
(***************************************************************************)
WHITE == 0
BLACK == 1

PAWN == 0
KNIGHT == 1
BISHOP == 2
ROOK == 3
QUEEN == 4
KING == 5

QUIET == 0
CAPTURE == 1
DOUBLE_PUSH == 2
EN_PASSANT == 3
CASTLE_00 == 4
CASTLE_000 == 5
PR_N == 6
PR_B == 7
PR_R == 8
PR_Q == 9
PC_N == 10
PC_B == 11
PC_R == 12
PC_Q == 13

North == 8
NorthEast == 9
East == 1
SouthEast == -7
South == -8
SouthWest == -9
West == -1
NorthWest == 7
North2 == 16
South2 == -16

A1 == 0
B1 == 1
C1 == 2
D1 == 3
E1 == 4
F1 == 5
G1 == 6
H1 == 7
A8 == 56
B8 == 57
C8 == 58
D8 == 59
E8 == 60
F8 == 61
G8 == 62
H8 == 63

\* Option::None for `captured` and `ep`
NONE == -1

\* MoveList: array: [Move; 218]
MOVELIST_CAP == 218

\* Position: history: [State; 216]
HISTORY_LEN == 216

Squares == 0..63
Colors == {WHITE, BLACK}
Pieces == 0..5

\* u64::MAX
U64_MAX == Squares

File(s) == s % 8
Rank(s) == s \div 8

(***************************************************************************)
(* State (lib.rs 44-85)                                                    *)
(***************************************************************************)
WHITE_00 == {1}
WHITE_000 == {2}
WHITE_CASTLING == {1, 2}
BLACK_00 == {4}
BLACK_000 == {8}
BLACK_CASTLING == {4, 8}
CASTLINGS == <<WHITE_CASTLING, BLACK_CASTLING>>
SHORT == <<WHITE_00, BLACK_00>>
LONG == <<WHITE_000, BLACK_000>>
SHORT_TARGET == <<G1, G8>>
KING_START == <<E1, E8>>
SHORT_ROOK == <<H1, H8>>
LONG_KING_TARGET == <<C1, C8>>
LONG_ROOK == <<A1, A8>>

\* State::new()
StateNew ==
  [turn |-> 0, castling |-> {}, captured |-> NONE, ep |-> NONE, hm |-> 0, fm |-> 0]

\* State::can_castle
can_castle(state, side) == state.castling \cap side # {}

(***************************************************************************)
(* Bit helpers (types.rs 604-663)                                          *)
(***************************************************************************)
MinOf(bb) == CHOOSE x \in bb : \A y \in bb : x <= y
MaxOf(bb) == CHOOSE x \in bb : \A y \in bb : x >= y

\* trailing_zeros: 64 for the empty bitboard
bit_scan(bb) == IF bb = {} THEN 64 ELSE MinOf(bb)

get_lsb(bb) == IF bb = {} THEN {} ELSE {MinOf(bb)}

pop_lsb(bb) == IF bb = {} THEN {} ELSE bb \ {MinOf(bb)}

bit_count(bb) == Cardinality(bb)

\* Direction::relative: negated for Black
relative(dir, color) == IF color = BLACK THEN -dir ELSE dir

\* BitBoard::shift_dir: bits shifted off the board are lost; east/west
\* shifts first clear the file they would wrap from
shift_dir(bb, dir) ==
  CASE dir = North     -> {s + 8 : s \in bb} \cap Squares
    [] dir = South     -> {s - 8 : s \in bb} \cap Squares
    [] dir = North2    -> {s + 16 : s \in bb} \cap Squares
    [] dir = South2    -> {s - 16 : s \in bb} \cap Squares
    [] dir = East      -> {s + 1 : s \in {t \in bb : File(t) # 7}} \cap Squares
    [] dir = West      -> {s - 1 : s \in {t \in bb : File(t) # 0}} \cap Squares
    [] dir = NorthEast -> {s + 9 : s \in {t \in bb : File(t) # 7}} \cap Squares
    [] dir = NorthWest -> {s + 7 : s \in {t \in bb : File(t) # 0}} \cap Squares
    [] dir = SouthEast -> {s - 7 : s \in {t \in bb : File(t) # 7}} \cap Squares
    [] dir = SouthWest -> {s - 9 : s \in {t \in bb : File(t) # 0}} \cap Squares

\* BitBoard::relative_rank(rank, color): RANK_1 << (num * 8)
relative_rank(rank, color) ==
  LET num == IF color = WHITE THEN rank - 1 ELSE 8 - rank
  IN {s \in Squares : Rank(s) = num}

\* BitBoard::RANK_1 << (sq / 8 * 8)
RankOf(sq) == {s \in Squares : Rank(s) = Rank(sq)}

(***************************************************************************)
(* Move encoding (types.rs 24-59): from | to << 6 | flag << 12 as u16      *)
(***************************************************************************)
RECURSIVE BitOr(_, _)
BitOr(a, b) ==
  IF a = 0 THEN b
  ELSE IF b = 0 THEN a
  ELSE (IF a % 2 = 1 \/ b % 2 = 1 THEN 1 ELSE 0) + 2 * BitOr(a \div 2, b \div 2)

\* Move::new: (from | to << 6 | flag << 12) as u16
MoveNew(from, to, flag) ==
  IF from \in 0..63 /\ to \in 0..63
    THEN (from + to * 64 + flag * 4096) % 65536
    ELSE BitOr(from, BitOr(to * 64, flag * 4096)) % 65536

MoveFrom(mv) == mv % 64

\* Move::to: (self.0 & TO_MASK) >> 6
MoveTo(mv) == (mv \div 64) % 64

\* Move::flag with a FLAG_MASK of three bits
MoveFlag_three_bits(mv) == (mv \div 4096) % 8

\* Move::flag: (self.0 & FLAG_MASK) >> 12
MoveFlag(mv) == (mv \div 4096) % 16

\* Move::EMPTY
MOVE_EMPTY == 0

is_capture(mv) ==
  MoveFlag(mv) \in {CAPTURE, EN_PASSANT, PC_B, PC_N, PC_R, PC_Q}

(***************************************************************************)
(* Lookup tables (module `lookup`, specified in spec.md 4.2)               *)
(***************************************************************************)
OnBoard(f, r) == f \in 0..7 /\ r \in 0..7

Sq(f, r) == r * 8 + f

Jump(sq, offs) ==
  {Sq(File(sq) + o[1], Rank(sq) + o[2]) :
     o \in {x \in offs : OnBoard(File(sq) + x[1], Rank(sq) + x[2])}}

KnightOffsets ==
  {<<1, 2>>, <<2, 1>>, <<2, -1>>, <<1, -2>>, <<-1, -2>>, <<-2, -1>>, <<-2, 1>>, <<-1, 2>>}

KingOffsets ==
  {<<1, 0>>, <<1, 1>>, <<0, 1>>, <<-1, 1>>, <<-1, 0>>, <<-1, -1>>, <<0, -1>>, <<1, -1>>}

HVDirs == {<<1, 0>>, <<-1, 0>>, <<0, 1>>, <<0, -1>>}

D12Dirs == {<<1, 1>>, <<-1, 1>>, <<1, -1>>, <<-1, -1>>}

KNIGHT_MASK == [sq \in Squares |-> Jump(sq, KnightOffsets)]

KING_MASK == [sq \in Squares |-> Jump(sq, KingOffsets)]

\* capture targets of a pawn of color c standing on sq
PAWN_ATTACKS ==
  [c \in Colors |-> [sq \in Squares |->
     IF c = WHITE THEN Jump(sq, {<<-1, 1>>, <<1, 1>>})
                  ELSE Jump(sq, {<<-1, -1>>, <<1, -1>>})]]

RaySq(sq, d) ==
  {Sq(File(sq) + k * d[1], Rank(sq) + k * d[2]) :
     k \in {j \in 1..7 : OnBoard(File(sq) + j * d[1], Rank(sq) + j * d[2])}}

\* rays from sq along rank and file, exclusive of sq
HV_MASKS == [sq \in Squares |-> UNION {RaySq(sq, d) : d \in HVDirs}]

\* rays from sq along both diagonals, exclusive of sq
D12_MASKS == [sq \in Squares |-> UNION {RaySq(sq, d) : d \in D12Dirs}]

\* The `_2` tables reject the sliders that share no rook ray (bishop ray)
\* with the king: line(king, s) & HV_MASKS_2[king] is empty exactly when s
\* is not on a rook ray from the king.
HV_MASKS_2 == [sq \in Squares |-> UNION {RaySq(sq, d) : d \in HVDirs}]

D12_MASKS_2 == [sq \in Squares |-> UNION {RaySq(sq, d) : d \in D12Dirs}]

SameHV(a, b) == a # b /\ (File(a) = File(b) \/ Rank(a) = Rank(b))

SameD12(a, b) ==
  a # b /\ (File(a) - Rank(a) = File(b) - Rank(b) \/ File(a) + Rank(a) = File(b) + Rank(b))

Sign(x) == IF x > 0 THEN 1 ELSE IF x < 0 THEN -1 ELSE 0

Abs(x) == IF x < 0 THEN -x ELSE x

Dist(a, b) ==
  IF Abs(File(a) - File(b)) > Abs(Rank(a) - Rank(b))
    THEN Abs(File(a) - File(b)) ELSE Abs(Rank(a) - Rank(b))

\* squares strictly between a and b when co-linear, else empty
between ==
  [a \in Squares |-> [b \in Squares |->
     IF SameHV(a, b) \/ SameD12(a, b)
       THEN {Sq(File(a) + k * Sign(File(b) - File(a)), Rank(a) + k * Sign(Rank(b) - Rank(a))) :
               k \in 1..(Dist(a, b) - 1)}
       ELSE {}]]

\* the entire rank, file or diagonal through a and b, else empty
line ==
  [a \in Squares |-> [b \in Squares |->
     IF a = b THEN {}
     ELSE IF Rank(a) = Rank(b) THEN {t \in Squares : Rank(t) = Rank(a)}
     ELSE IF File(a) = File(b) THEN {t \in Squares : File(t) = File(a)}
     ELSE IF File(a) - Rank(a) = File(b) - Rank(b)
       THEN {t \in Squares : File(t) - Rank(t) = File(a) - Rank(a)}
     ELSE IF File(a) + Rank(a) = File(b) + Rank(b)
       THEN {t \in Squares : File(t) + Rank(t) = File(a) + Rank(a)}
     ELSE {}]]

\* squares a rook-like piece on sq attacks given occupancy occ
hv_moves(sq, occ) == {t \in HV_MASKS_2[sq] : between[sq][t] \cap occ = {}}

\* squares a bishop-like piece on sq attacks given occupancy occ
d12_moves(sq, occ) == {t \in D12_MASKS_2[sq] : between[sq][t] \cap occ = {}}

oo_blockers(color) == IF color = WHITE THEN {F1, G1} ELSE {F8, G8}

ooo_blockers(color) == IF color = WHITE THEN {B1, C1, D1} ELSE {B8, C8, D8}

ooo_danger(color) == IF color = WHITE THEN {C1, D1} ELSE {C8, D8}

\* ZOBRIST_PIECES[c][p][sq]: one distinct key per (color, piece, square)
ZOBRIST_PIECES(c, p, sq) == <<c, p, sq>>

\* h ^ k for a set k of keys
Xor(h, k) == (h \ k) \cup (k \ h)

(***************************************************************************)
(* Position (lib.rs 89-244).  A position value P is the record of the      *)
(* fields of `Position`.  An operation that can abort returns              *)
(* [p |-> position at return or at the abort, err |-> "ok" or the abort].  *)
(***************************************************************************)
Ok(P) == [p |-> P, err |-> "ok"]

Fail(P, e) == [p |-> P, err |-> e]

Then(r, Op(_)) == IF r.err # "ok" THEN r ELSE Op(r.p)

\* Position::new()
PositionNew ==
  [ply |-> 0,
   pieces_bb |-> [c \in Colors |-> [p \in Pieces |-> {}]],
   history |-> [i \in 0..(HISTORY_LEN - 1) |-> StateNew],
   hash |-> {},
   pin_hv |-> {},
   pin_d12 |-> {},
   danger |-> {},
   checkmask |-> {}]

actual_state(P) == P.history[P.ply]

\* the (color, piece) pairs, as c * 6 + p, whose bitboard holds the square
Occupants(P, sq) ==
  {c * 6 + p : <<c, p>> \in {x \in Colors \X Pieces : sq \in P.pieces_bb[x[1]][x[2]]}}

\* first hit of the scan `for c in [0, 1] { for p in 0..6 {..} }`
color_on(P, sq) ==
  IF Occupants(P, sq) = {} THEN NONE ELSE MinOf(Occupants(P, sq)) \div 6

piece_on(P, sq) ==
  IF Occupants(P, sq) = {} THEN NONE ELSE MinOf(Occupants(P, sq)) % 6

bb_of(P, color, piece) == P.pieces_bb[color][piece]

colors(P, color) == UNION {P.pieces_bb[color][p] : p \in Pieces}

occupancy(P) == colors(P, WHITE) \cup colors(P, BLACK)

king(P, color) == bit_scan(P.pieces_bb[color][KING])

hv_sliders(P, color) == bb_of(P, color, ROOK) \cup bb_of(P, color, QUEEN)

d12_sliders(P, color) == bb_of(P, color, BISHOP) \cup bb_of(P, color, QUEEN)

\* Position::move_quiet: both unwraps abort on an empty square
move_quiet(P, from, to) ==
  IF color_on(P, from) = NONE
    THEN Fail(P, "unwrap on empty square")
    ELSE LET c == color_on(P, from)
             p == piece_on(P, from)
         IN Ok([P EXCEPT
                  !.pieces_bb[c][p] = Xor(@, {from, to}),
                  !.hash = Xor(Xor(@, {ZOBRIST_PIECES(c, p, from)}),
                               {ZOBRIST_PIECES(c, p, to)})])

\* Position::unset_square: clears the bit in all twelve bitboards and XORs
\* all twelve keys of the square into the hash
unset_square(P, square) ==
  [P EXCEPT
     !.pieces_bb = [c \in Colors |-> [p \in Pieces |-> P.pieces_bb[c][p] \ {square}]],
     !.hash = Xor(@, {ZOBRIST_PIECES(c, p, square) : c \in Colors, p \in Pieces})]

\* Position::set_square
set_square(P, square, piece, color) ==
  LET Q == unset_square(P, square)
  IN [Q EXCEPT
        !.pieces_bb[color][piece] = @ \cup {square},
        !.hash = Xor(@, {ZOBRIST_PIECES(color, piece, square)})]

(***************************************************************************)
(* Attack/pin analyser (lib.rs 644-798)                                    *)
(***************************************************************************)
\* Position::attacks with the king of the side to move left in occ
attacks_with_king(P) ==
  LET state == actual_state(P)
      us == state.turn
      them == 1 - state.turn
      e_king == king(P, them)
      occ == occupancy(P)
  IN KING_MASK[e_king]
       \cup UNION {PAWN_ATTACKS[them][s] : s \in P.pieces_bb[them][PAWN]}
       \cup UNION {KNIGHT_MASK[s] : s \in P.pieces_bb[them][KNIGHT]}
       \cup UNION {hv_moves(s, occ) : s \in hv_sliders(P, them)}
       \cup UNION {d12_moves(s, occ) : s \in d12_sliders(P, them)}

\* Position::attacks: the king of the side to move is removed from occ
attacks(P) ==
  LET state == actual_state(P)
      us == state.turn
      them == 1 - state.turn
      o_king == king(P, us)
      e_king == king(P, them)
      occ == occupancy(P) \ {o_king}
  IN KING_MASK[e_king]
       \cup UNION {PAWN_ATTACKS[them][s] : s \in P.pieces_bb[them][PAWN]}
       \cup UNION {KNIGHT_MASK[s] : s \in P.pieces_bb[them][KNIGHT]}
       \cup UNION {hv_moves(s, occ) : s \in hv_sliders(P, them)}
       \cup UNION {d12_moves(s, occ) : s \in d12_sliders(P, them)}

\* SliderCase without the quick check on line(king, s)
SliderCase_no_line_test(P, kng, s, masks, masks2) ==
  LET state == actual_state(P)
      b1 == between[kng][s] \cap masks[kng]
  IN IF b1 = {} THEN "check"
     ELSE IF b1 \cap colors(P, 1 - state.turn) # {} THEN "skip"
     ELSE IF b1 \cap colors(P, state.turn) = {} THEN "check"
     ELSE IF bit_count(b1 \cap colors(P, state.turn)) = 1 THEN "pin"
     ELSE "skip"

\* one pass of a slider loop of check_and_pin for slider s:
\* "skip", "check" (s counts as a checker) or "pin"
SliderCase(P, kng, s, masks, masks2) ==
  LET state == actual_state(P)
      b1 == between[kng][s] \cap masks[kng]
      b2 == line[kng][s] \cap masks2[kng]
  IN IF b2 = {} THEN "skip"
     ELSE IF b1 = {} THEN "check"
     ELSE IF b1 \cap colors(P, 1 - state.turn) # {} THEN "skip"
     ELSE IF b1 \cap colors(P, state.turn) = {} THEN "check"
     ELSE IF bit_count(b1 \cap colors(P, state.turn)) = 1 THEN "pin"
     ELSE "skip"

\* SliderRay without the slider's own square
SliderRay_without_slider(kng, s, masks) == between[kng][s] \cap masks[kng]

\* the bits the pass ORs into checkmask or the pin mask: s and b1
SliderRay(kng, s, masks) == {s} \cup (between[kng][s] \cap masks[kng])

\* final_checkmask without the test for a double check
final_checkmask_single(check_count, mask) ==
  IF check_count = 0 THEN U64_MAX ELSE mask

\* "If no check, fill the checkmask", "If is a double check, set it to 0"
final_checkmask(check_count, mask) ==
  IF check_count > 1 THEN {}
  ELSE IF check_count = 0 THEN U64_MAX
  ELSE mask

\* Position::check_and_pin, <<checkmask, pin_hv, pin_d12>>
check_and_pin(P) ==
  LET state == actual_state(P)
      kng == king(P, state.turn)
      them == 1 - state.turn
      e_hv == hv_sliders(P, them)
      e_d12 == d12_sliders(P, them)
      near == (KNIGHT_MASK[kng] \cap P.pieces_bb[them][KNIGHT])
                \cup (PAWN_ATTACKS[state.turn][kng] \cap P.pieces_bb[them][PAWN])
      hvChk == {s \in e_hv : SliderCase(P, kng, s, HV_MASKS, HV_MASKS_2) = "check"}
      hvPin == {s \in e_hv : SliderCase(P, kng, s, HV_MASKS, HV_MASKS_2) = "pin"}
      dChk == {s \in e_d12 : SliderCase(P, kng, s, D12_MASKS, D12_MASKS_2) = "check"}
      dPin == {s \in e_d12 : SliderCase(P, kng, s, D12_MASKS, D12_MASKS_2) = "pin"}
      check_count == bit_count(near) + Cardinality(hvChk) + Cardinality(dChk)
      mask == near \cup UNION {SliderRay(kng, s, HV_MASKS) : s \in hvChk}
                   \cup UNION {SliderRay(kng, s, D12_MASKS) : s \in dChk}
      pin_hv == UNION {SliderRay(kng, s, HV_MASKS) : s \in hvPin}
      pin_d12 == UNION {SliderRay(kng, s, D12_MASKS) : s \in dPin}
  IN <<final_checkmask(check_count, mask), pin_hv, pin_d12>>

\* update_checks that leaves danger as it was
update_checks_keeps_danger(P) ==
  LET state == actual_state(P)
  IN IF king(P, state.turn) = 64 \/ king(P, 1 - state.turn) = 64
       THEN Fail(P, "king bitboard empty")
       ELSE LET t == check_and_pin(P)
            IN Ok([P EXCEPT !.checkmask = t[1], !.pin_hv = t[2], !.pin_d12 = t[3]])

\* Position::update_checks.  king() of an empty bitboard is 64, and the
\* table lookups KNIGHT_MASK[64] (check_and_pin) and KING_MASK[64]
\* (attacks) abort with an index out of bounds.
update_checks(P) ==
  LET state == actual_state(P)
  IN IF king(P, state.turn) = 64
       THEN Fail(P, "king bitboard empty")
       ELSE LET t == check_and_pin(P)
                Q == [P EXCEPT !.checkmask = t[1], !.pin_hv = t[2], !.pin_d12 = t[3]]
            IN IF king(P, 1 - state.turn) = 64
                 THEN Fail(Q, "king bitboard empty")
                 ELSE Ok([Q EXCEPT !.danger = attacks(Q)])

in_check(P) == P.checkmask # U64_MAX

(***************************************************************************)
(* Make/undo engine (lib.rs 246-558)                                       *)
(***************************************************************************)
CurCastling(P) == P.history[P.ply].castling

SetCastling(P, c) == [P EXCEPT !.history[P.ply].castling = c]

\* "If captures a rook that can castle, then remove that castle"
clear_captured_rook(castling, state, to) ==
  (((castling
      \ (IF can_castle(state, WHITE_00) /\ to = H1 THEN WHITE_00 ELSE {}))
      \ (IF can_castle(state, WHITE_000) /\ to = A1 THEN WHITE_000 ELSE {}))
      \ (IF can_castle(state, BLACK_00) /\ to = H8 THEN BLACK_00 ELSE {}))
      \ (IF can_castle(state, BLACK_000) /\ to = A8 THEN BLACK_000 ELSE {})

\* a rook leaving its home corner loses that side's right
clear_moved_rook(castling, state, from) ==
  (castling
     \ (IF can_castle(state, SHORT[state.turn + 1]) /\ from = SHORT_ROOK[state.turn + 1]
          THEN SHORT[state.turn + 1] ELSE {}))
     \ (IF can_castle(state, LONG[state.turn + 1]) /\ from = LONG_ROOK[state.turn + 1]
          THEN LONG[state.turn + 1] ELSE {})

\* Move::QUIET
make_quiet(P, mv, state) ==
  LET pc == piece_on(P, MoveFrom(mv))
      c1 == IF pc = KING THEN CurCastling(P) \ CASTLINGS[state.turn + 1]
                         ELSE CurCastling(P)
      c2 == IF pc = ROOK THEN clear_moved_rook(c1, state, MoveFrom(mv)) ELSE c1
  IN move_quiet(SetCastling(P, c2), MoveFrom(mv), MoveTo(mv))

\* Move::DOUBLE_PUSH
make_double_push(P, mv, state) ==
  Then(move_quiet(P, MoveFrom(mv), MoveTo(mv)),
       LAMBDA Q : Ok([Q EXCEPT !.history[Q.ply].ep =
                        MoveFrom(mv) + relative(North, state.turn)]))

\* Move::CASTLE_00 and Move::CASTLE_000: the king, then the rook, then the
\* rights of the side
make_castle(P, state, kfrom, kto, rfrom, rto) ==
  Then(Then(move_quiet(P, kfrom, kto), LAMBDA Q : move_quiet(Q, rfrom, rto)),
       LAMBDA Q : Ok(SetCastling(Q, CurCastling(Q) \ CASTLINGS[state.turn + 1])))

make_castle_00(P, mv, state) ==
  IF state.turn = WHITE THEN make_castle(P, state, E1, G1, H1, F1)
                        ELSE make_castle(P, state, E8, G8, H8, F8)

make_castle_000(P, mv, state) ==
  IF state.turn = WHITE THEN make_castle(P, state, E1, C1, A1, D1)
                        ELSE make_castle(P, state, E8, C8, A8, D8)

\* Move::EN_PASSANT
make_en_passant(P, mv, state) ==
  Then(move_quiet(P, MoveFrom(mv), MoveTo(mv)),
       LAMBDA Q : Ok(unset_square(Q, MoveTo(mv) + relative(South, state.turn))))

\* Move::PR_N .. Move::PR_Q
make_promotion(P, mv, state, piece) ==
  Ok(set_square(unset_square(P, MoveFrom(mv)), MoveTo(mv), piece, state.turn))

\* Move::PC_N .. Move::PC_Q; PC_B, PC_R and PC_Q unset the target square
\* once more before set_square does
make_promotion_capture(P, mv, state, piece, twice) ==
  LET Q1 == unset_square(P, MoveFrom(mv))
  IN IF piece_on(Q1, MoveTo(mv)) = NONE
       THEN Fail(Q1, "unwrap on empty square")
       ELSE LET Q2 == [Q1 EXCEPT !.history[Q1.ply].captured = piece_on(Q1, MoveTo(mv))]
                Q3 == IF twice THEN unset_square(Q2, MoveTo(mv)) ELSE Q2
                Q4 == set_square(Q3, MoveTo(mv), piece, state.turn)
            IN Ok(SetCastling(Q4, clear_captured_rook(CurCastling(Q4), state, MoveTo(mv))))

\* Move::CAPTURE: the castling rights
capture_castling(P, mv, state) ==
  LET pc == piece_on(P, MoveFrom(mv))
      c1 == IF pc = KING THEN CurCastling(P) \ CASTLINGS[state.turn + 1]
                         ELSE clear_captured_rook(CurCastling(P), state, MoveTo(mv))
  IN IF pc = ROOK THEN clear_moved_rook(c1, state, MoveFrom(mv)) ELSE c1

\* make_capture without the removal of the captured piece from `to`
make_capture_keeps_captured(P, mv, state) ==
  LET Q1 == SetCastling(P, capture_castling(P, mv, state))
  IN IF piece_on(Q1, MoveTo(mv)) = NONE
       THEN Fail(Q1, "unwrap on empty square")
       ELSE LET Q2 == [Q1 EXCEPT !.history[Q1.ply].captured = piece_on(Q1, MoveTo(mv))]
            IN move_quiet(Q2, MoveFrom(mv), MoveTo(mv))

\* Move::CAPTURE
make_capture(P, mv, state) ==
  LET Q1 == SetCastling(P, capture_castling(P, mv, state))
  IN IF piece_on(Q1, MoveTo(mv)) = NONE
       THEN Fail(Q1, "unwrap on empty square")
       ELSE LET Q2 == [Q1 EXCEPT !.history[Q1.ply].captured = piece_on(Q1, MoveTo(mv))]
            IN move_quiet(unset_square(Q2, MoveTo(mv)), MoveFrom(mv), MoveTo(mv))

\* make_frame that also clears ep in the frame it leaves
make_frame_clears_previous_ep(P, state) ==
  [P EXCEPT
     !.ply = @ + 1,
     !.history[P.ply].ep = NONE,
     !.history[P.ply + 1] =
        [@ EXCEPT !.turn = 1 - state.turn,
                  !.fm = IF state.turn = BLACK THEN state.fm + 1 ELSE state.fm,
                  !.hm = state.hm,
                  !.castling = state.castling]]

\* the new frame of make_move: turn flipped, clocks and rights copied, fm
\* incremented after Black's move; captured and ep are not written
make_frame(P, state) ==
  [P EXCEPT
     !.ply = @ + 1,
     !.history[P.ply + 1] =
        [@ EXCEPT !.turn = 1 - state.turn,
                  !.fm = IF state.turn = BLACK THEN state.fm + 1 ELSE state.fm,
                  !.hm = state.hm,
                  !.castling = state.castling]]

\* `match mv.flag()` of make_move
make_dispatch(P, mv, state) ==
  CASE MoveFlag(mv) = QUIET -> make_quiet(P, mv, state)
    [] MoveFlag(mv) = DOUBLE_PUSH -> make_double_push(P, mv, state)
    [] MoveFlag(mv) = CASTLE_00 -> make_castle_00(P, mv, state)
    [] MoveFlag(mv) = CASTLE_000 -> make_castle_000(P, mv, state)
    [] MoveFlag(mv) = EN_PASSANT -> make_en_passant(P, mv, state)
    [] MoveFlag(mv) = PR_N -> make_promotion(P, mv, state, KNIGHT)
    [] MoveFlag(mv) = PR_B -> make_promotion(P, mv, state, BISHOP)
    [] MoveFlag(mv) = PR_R -> make_promotion(P, mv, state, ROOK)
    [] MoveFlag(mv) = PR_Q -> make_promotion(P, mv, state, QUEEN)
    [] MoveFlag(mv) = PC_N -> make_promotion_capture(P, mv, state, KNIGHT, FALSE)
    [] MoveFlag(mv) = PC_B -> make_promotion_capture(P, mv, state, BISHOP, TRUE)
    [] MoveFlag(mv) = PC_R -> make_promotion_capture(P, mv, state, ROOK, TRUE)
    [] MoveFlag(mv) = PC_Q -> make_promotion_capture(P, mv, state, QUEEN, TRUE)
    [] MoveFlag(mv) = CAPTURE -> make_capture(P, mv, state)
    [] OTHER -> Fail(P, "Invalid move flag")

\* hm_reset without the test for a moved pawn
hm_reset_by_flag(P, mv) == MoveFlag(mv) \in {PC_N, PC_B, PC_R, PC_Q, CAPTURE}

\* hm_reset: a pawn moved, or the flag is PC_* or CAPTURE
hm_reset(P, mv) ==
  piece_on(P, MoveFrom(mv)) = PAWN
    \/ MoveFlag(mv) \in {PC_N, PC_B, PC_R, PC_Q, CAPTURE}

\* `if hm_reset { hm = 0 } else { hm += 1 }`
update_hm(P, reset) ==
  [P EXCEPT !.history[P.ply].hm = IF reset THEN 0 ELSE @ + 1]

\* Position::make_move
make_move(P, mv) ==
  LET state == actual_state(P)
  IN IF P.ply + 1 >= HISTORY_LEN
       THEN Fail([P EXCEPT !.ply = @ + 1], "history index out of bounds")
       ELSE LET P1 == make_frame(P, state)
            IN IF piece_on(P1, MoveFrom(mv)) = NONE
                 THEN Fail(P1, "unwrap on empty square")
                 ELSE Then(make_dispatch(P1, mv, state),
                           LAMBDA Q : update_checks(update_hm(Q, hm_reset(P1, mv))))

\* Move::QUIET | Move::DOUBLE_PUSH
undo_quiet(P, mv, state) == move_quiet(P, MoveTo(mv), MoveFrom(mv))

undo_castle(P, kfrom, kto, rfrom, rto) ==
  Then(move_quiet(P, kfrom, kto), LAMBDA Q : move_quiet(Q, rfrom, rto))

undo_castle_00(P, mv, state) ==
  IF 1 - state.turn = WHITE THEN undo_castle(P, G1, E1, F1, H1)
                            ELSE undo_castle(P, G8, E8, F8, H8)

undo_castle_000(P, mv, state) ==
  IF 1 - state.turn = WHITE THEN undo_castle(P, C1, E1, D1, A1)
                            ELSE undo_castle(P, C8, E8, D8, A8)

undo_en_passant(P, mv, state) ==
  Then(move_quiet(P, MoveTo(mv), MoveFrom(mv)),
       LAMBDA Q : Ok(set_square(Q, MoveTo(mv) + relative(South, 1 - state.turn),
                                PAWN, state.turn)))

undo_promotion(P, mv, state) ==
  Ok(set_square(unset_square(P, MoveTo(mv)), MoveFrom(mv), PAWN, 1 - state.turn))

undo_promotion_capture(P, mv, state) ==
  LET Q1 == unset_square(P, MoveTo(mv))
  IN IF state.captured = NONE
       THEN Fail(Q1, "unwrap on None")
       ELSE Ok(set_square(set_square(Q1, MoveTo(mv), state.captured, state.turn),
                          MoveFrom(mv), PAWN, 1 - state.turn))

\* undo_capture that puts the captured piece back with the mover's color
undo_capture_wrong_color(P, mv, state) ==
  Then(move_quiet(P, MoveTo(mv), MoveFrom(mv)),
       LAMBDA Q : IF state.captured = NONE
                    THEN Fail(Q, "unwrap on None")
                    ELSE Ok(set_square(Q, MoveTo(mv), state.captured, 1 - state.turn)))

undo_capture(P, mv, state) ==
  Then(move_quiet(P, MoveTo(mv), MoveFrom(mv)),
       LAMBDA Q : IF state.captured = NONE
                    THEN Fail(Q, "unwrap on None")
                    ELSE Ok(set_square(Q, MoveTo(mv), state.captured, state.turn)))

\* undo_frame that leaves the popped frame as the move wrote it
undo_frame_keeps_frame(P) == [P EXCEPT !.ply = @ - 1]

\* "Replace the actual state": the frame is cleared and ply decremented
\* undo_move that leaves `captured` in the frame it pops
undo_frame_keeps_captured(P) ==
  [P EXCEPT !.history[P.ply] = [StateNew EXCEPT !.captured = P.history[P.ply].captured],
            !.ply = @ - 1]

undo_frame(P) == [P EXCEPT !.history[P.ply] = StateNew, !.ply = @ - 1]

\* `match mv.flag()` of undo_move
undo_dispatch(P, mv, state) ==
  CASE MoveFlag(mv) \in {QUIET, DOUBLE_PUSH} -> undo_quiet(P, mv, state)
    [] MoveFlag(mv) = CASTLE_00 -> undo_castle_00(P, mv, state)
    [] MoveFlag(mv) = CASTLE_000 -> undo_castle_000(P, mv, state)
    [] MoveFlag(mv) = EN_PASSANT -> undo_en_passant(P, mv, state)
    [] MoveFlag(mv) \in {PR_N, PR_B, PR_R, PR_Q} -> undo_promotion(P, mv, state)
    [] MoveFlag(mv) \in {PC_N, PC_B, PC_R, PC_Q} -> undo_promotion_capture(P, mv, state)
    [] MoveFlag(mv) = CAPTURE -> undo_capture(P, mv, state)
    [] OTHER -> Fail(P, "Invalid move flag")

\* Position::undo_move
undo_move(P, mv) ==
  LET state == actual_state(P)
  IN IF P.ply = 0
       THEN Fail(P, "ply underflow")
       ELSE Then(undo_dispatch(undo_frame(P), mv, state),
                 LAMBDA Q : update_checks(Q))

(***************************************************************************)
(* MoveList (types.rs 89-141): the moves added so far, in order.  The      *)
(* array holds MOVELIST_CAP moves; add aborts on the next one.             *)
(***************************************************************************)
SquareSeq == [i \in 1..64 |-> i - 1]

\* the set bits of a bitboard from lowest to highest (bit_scan / pop_lsb)
BitSeq(bb) == SelectSeq(SquareSeq, LAMBDA s : s \in bb)

RECURSIVE Flatten(_)
Flatten(ss) == IF ss = <<>> THEN <<>> ELSE Head(ss) \o Flatten(Tail(ss))

\* MoveList::extend: one move per set bit of `to`
extend(from, to, flag) ==
  LET q == BitSeq(to)
  IN [i \in 1..Len(q) |-> MoveNew(from, q[i], flag)]

\* MoveList::add_promotions
add_promotions(from, to, capture) ==
  IF capture
    THEN <<MoveNew(from, to, PC_N), MoveNew(from, to, PC_B),
           MoveNew(from, to, PC_R), MoveNew(from, to, PC_Q)>>
    ELSE <<MoveNew(from, to, PR_N), MoveNew(from, to, PR_B),
           MoveNew(from, to, PR_R), MoveNew(from, to, PR_Q)>>

(***************************************************************************)
(* Legal move generator (lib.rs 801-1210)                                  *)
(***************************************************************************)
Turn(P) == actual_state(P).turn

Enemy(P) == colors(P, 1 - Turn(P))

Empty(P) == Squares \ occupancy(P)

Pinned(P) == P.pin_hv \cup P.pin_d12

\* the bits still in b2 when the loop reaches the i-th bit of q
Rest(q, i) == {q[j] : j \in i..Len(q)}

\* `while b2 != 0 { s = b2.bit_scan();
\*      list.add(shift_dir(b2, back).bit_scan(), s, flag); b2 = b2.pop_lsb() }`
pawn_adds(b2, back, flag) ==
  LET q == BitSeq(b2)
  IN [i \in 1..Len(q) |-> MoveNew(bit_scan(shift_dir(Rest(q, i), back)), q[i], flag)]

\* the same loop with list.add_promotions
pawn_promotions(b2, back, capture) ==
  LET q == BitSeq(b2)
  IN Flatten([i \in 1..Len(q) |->
       add_promotions(bit_scan(shift_dir(Rest(q, i), back)), q[i], capture)])

\* king moves: KING_MASK[o_king] & !danger, captures first
legal_king(P) ==
  LET o_king == king(P, Turn(P))
      b1 == KING_MASK[o_king] \ P.danger
  IN extend(o_king, b1 \cap Enemy(P), CAPTURE) \o extend(o_king, b1 \cap Empty(P), QUIET)

\* the loop sets of the piece loops, in program order
knight_set(P) == P.pieces_bb[Turn(P)][KNIGHT] \ Pinned(P)

hv_pinned_set(P) == (hv_sliders(P, Turn(P)) \ P.pin_d12) \cap P.pin_hv

hv_free_set(P) == (hv_sliders(P, Turn(P)) \ P.pin_d12) \ P.pin_hv

d12_pinned_set(P) == (d12_sliders(P, Turn(P)) \ P.pin_hv) \cap P.pin_d12

d12_free_set(P) == (d12_sliders(P, Turn(P)) \ P.pin_hv) \ P.pin_d12

\* one pass of a piece loop: captures, then quiet moves, within `targets`
piece_moves(P, s, targets) ==
  extend(s, targets \cap Enemy(P), CAPTURE) \o extend(s, targets \cap Empty(P), QUIET)

legal_knights(P) ==
  LET q == BitSeq(knight_set(P))
  IN Flatten([i \in 1..Len(q) |->
       piece_moves(P, q[i], KNIGHT_MASK[q[i]] \cap P.checkmask)])

legal_hv(P) ==
  LET q1 == BitSeq(hv_pinned_set(P))
      q2 == BitSeq(hv_free_set(P))
      occ == occupancy(P)
  IN Flatten([i \in 1..Len(q1) |->
       piece_moves(P, q1[i], (hv_moves(q1[i], occ) \cap P.checkmask) \cap P.pin_hv)])
     \o Flatten([i \in 1..Len(q2) |->
       piece_moves(P, q2[i], hv_moves(q2[i], occ) \cap P.checkmask)])

legal_d12(P) ==
  LET q1 == BitSeq(d12_pinned_set(P))
      q2 == BitSeq(d12_free_set(P))
      occ == occupancy(P)
  IN Flatten([i \in 1..Len(q1) |->
       piece_moves(P, q1[i], (d12_moves(q1[i], occ) \cap P.checkmask) \cap P.pin_d12)])
     \o Flatten([i \in 1..Len(q2) |->
       piece_moves(P, q2[i], d12_moves(q2[i], occ) \cap P.checkmask)])

\* pawn pushes of unpinned pawns: the loop sets
push_b1(P) ==
  shift_dir(P.pieces_bb[Turn(P)][PAWN] \ Pinned(P), relative(North, Turn(P)))
    \cap Empty(P)

push_quiet_set(P) == (push_b1(P) \ relative_rank(8, Turn(P))) \cap P.checkmask

push_promo_set(P) == (push_b1(P) \cap relative_rank(8, Turn(P))) \cap P.checkmask

push_double_set(P) ==
  ((shift_dir(push_b1(P), relative(North, Turn(P))) \cap Empty(P))
     \cap relative_rank(4, Turn(P))) \cap P.checkmask

\* pawn pushes of pawns pinned on pin_hv
pin_push_set(P) ==
  ((shift_dir((P.pieces_bb[Turn(P)][PAWN] \ P.pin_d12) \cap P.pin_hv,
              relative(North, Turn(P))) \cap Empty(P)) \cap P.pin_hv) \cap P.checkmask

pin_double_set(P) ==
  (((shift_dir(pin_push_set(P), relative(North, Turn(P))) \cap Empty(P))
      \cap P.pin_hv) \cap relative_rank(4, Turn(P))) \cap P.checkmask

legal_pushes(P) ==
  pawn_adds(push_quiet_set(P), relative(South, Turn(P)), QUIET)
    \o pawn_promotions(push_promo_set(P), relative(South, Turn(P)), FALSE)
    \o pawn_adds(push_double_set(P), relative(South2, Turn(P)), DOUBLE_PUSH)
    \o pawn_adds(pin_push_set(P), relative(South, Turn(P)), QUIET)
    \o pawn_adds(pin_double_set(P), relative(South2, Turn(P)), DOUBLE_PUSH)

\* pawn captures of unpinned pawns in direction dir
capture_b1(P, dir) ==
  (shift_dir(P.pieces_bb[Turn(P)][PAWN] \ Pinned(P), relative(dir, Turn(P)))
     \cap Enemy(P)) \cap P.checkmask

\* pawn captures of pawns pinned on pin_d12 in direction dir
pin_capture_b1(P, dir) ==
  (shift_dir((P.pieces_bb[Turn(P)][PAWN] \ P.pin_hv) \cap P.pin_d12,
             relative(dir, Turn(P))) \cap Enemy(P)) \cap P.pin_d12

\* captures, then capture promotions, of the set b1 reached in direction dir
capture_moves(P, b1, dir) ==
  pawn_adds(b1 \ relative_rank(8, Turn(P)), relative(-dir, Turn(P)), CAPTURE)
    \o pawn_promotions(b1 \cap relative_rank(8, Turn(P)), relative(-dir, Turn(P)), TRUE)

legal_captures(P) ==
  capture_moves(P, capture_b1(P, NorthEast), NorthEast)
    \o capture_moves(P, capture_b1(P, NorthWest), NorthWest)
    \o capture_moves(P, pin_capture_b1(P, NorthEast), NorthEast)
    \o capture_moves(P, pin_capture_b1(P, NorthWest), NorthWest)

\* every loop set that assigns `s`, in program order; the en passant loop
\* reads the value `s` was left with
LoopSets(P) ==
  <<knight_set(P), hv_pinned_set(P), hv_free_set(P), d12_pinned_set(P), d12_free_set(P),
    push_quiet_set(P), push_promo_set(P), push_double_set(P),
    pin_push_set(P), pin_double_set(P),
    capture_b1(P, NorthEast) \ relative_rank(8, Turn(P)),
    capture_b1(P, NorthEast) \cap relative_rank(8, Turn(P)),
    capture_b1(P, NorthWest) \ relative_rank(8, Turn(P)),
    capture_b1(P, NorthWest) \cap relative_rank(8, Turn(P)),
    pin_capture_b1(P, NorthEast) \ relative_rank(8, Turn(P)),
    pin_capture_b1(P, NorthEast) \cap relative_rank(8, Turn(P)),
    pin_capture_b1(P, NorthWest) \ relative_rank(8, Turn(P)),
    pin_capture_b1(P, NorthWest) \cap relative_rank(8, Turn(P))>>

StaleS(P) ==
  LET ne == SelectSeq(LoopSets(P), LAMBDA b : b # {})
  IN IF ne = <<>> THEN 0 ELSE MaxOf(ne[Len(ne)])

\* the pawns the en passant loop runs over
ep_b1(P) ==
  LET state == actual_state(P)
  IN IF state.ep = NONE THEN {}
     ELSE (PAWN_ATTACKS[1 - state.turn][state.ep] \cap P.pieces_bb[state.turn][PAWN])
            \ P.pin_hv

\* the moves one pass of the en passant loop adds; the pass pops nothing
\* from b1 and does not assign s
ep_pass(P, s) ==
  LET state == actual_state(P)
      ep == state.ep
      o_king == king(P, state.turn)
      occ == occupancy(P)
      b2 == {ep}
      behind == shift_dir({ep}, relative(South, state.turn))
      b3 == hv_sliders(P, 1 - state.turn) \cap RankOf(o_king)
      q3 == BitSeq(b3)
  IN IF P.pin_d12 \cap get_lsb(ep_b1(P)) # {}
       THEN extend(s, (b2 \cap P.pin_d12) \cap P.checkmask, EN_PASSANT)
     ELSE IF b3 = {}
       THEN IF P.checkmask = behind
              THEN extend(s, b2, EN_PASSANT)
              ELSE extend(s, b2 \cap P.checkmask, EN_PASSANT)
     ELSE Flatten([i \in 1..Len(q3) |->
            IF between[q3[i]][o_king] \cap occ # ({s} \cup behind)
              THEN extend(s, b2 \cap P.checkmask, EN_PASSANT)
              ELSE <<>>])

\* castling, only when checkmask == u64::MAX
legal_castling(P) ==
  LET state == actual_state(P)
      o_king == king(P, state.turn)
      occ == occupancy(P)
      oo == oo_blockers(state.turn)
      ooo == ooo_blockers(state.turn)
      short == IF can_castle(state, SHORT[state.turn + 1])
                    /\ (oo \ P.danger) \ occ = oo
                 THEN <<MoveNew(o_king, SHORT_TARGET[state.turn + 1], CASTLE_00)>>
                 ELSE <<>>
      long == IF can_castle(state, LONG[state.turn + 1])
                   /\ (ooo \cap ((Squares \ P.danger) \cup ooo_danger(state.turn))) \ occ = ooo
                THEN <<MoveNew(o_king, LONG_KING_TARGET[state.turn + 1], CASTLE_000)>>
                ELSE <<>>
  IN IF P.checkmask = U64_MAX THEN short \o long ELSE <<>>

\* Position::legal.  outcome is "ok" when the call returns `list`;
\* "abort" when a table is indexed with the square 64 of a missing king;
\* "overflow" when a 219th move is added; "diverge" when the en passant
\* loop, which never changes its loop set b1, adds nothing in a pass.
legal(P) ==
  LET kingPart == legal_king(P)
      body == kingPart \o legal_knights(P) \o legal_hv(P) \o legal_d12(P)
                \o legal_pushes(P) \o legal_captures(P)
  IN IF king(P, Turn(P)) = 64 THEN [list |-> <<>>, outcome |-> "abort"]
     ELSE IF P.checkmask = {} THEN [list |-> kingPart, outcome |-> "ok"]
     ELSE IF Len(body) > MOVELIST_CAP THEN [list |-> body, outcome |-> "overflow"]
     ELSE IF ep_b1(P) # {}
       THEN [list |-> body,
             outcome |-> IF ep_pass(P, StaleS(P)) = <<>> THEN "diverge" ELSE "overflow"]
     ELSE [list |-> body \o legal_castling(P),
           outcome |-> IF Len(body \o legal_castling(P)) > MOVELIST_CAP
                         THEN "overflow" ELSE "ok"]

(***************************************************************************)
(* FEN construction (lib.rs 1237-1308, types.rs 345-355, 590-594).  A FEN  *)
(* is given by its fields; the placement field is the sequence of its      *)
(* ranks (rank 8 first), each the sequence of its characters.              *)
(***************************************************************************)
Digits ==
  ("1" :> 1) @@ ("2" :> 2) @@ ("3" :> 3) @@ ("4" :> 4) @@ ("5" :> 5)
    @@ ("6" :> 6) @@ ("7" :> 7) @@ ("8" :> 8) @@ ("0" :> 0) @@ ("9" :> 9)

Files ==
  ("a" :> 0) @@ ("b" :> 1) @@ ("c" :> 2) @@ ("d" :> 3) @@ ("e" :> 4)
    @@ ("f" :> 5) @@ ("g" :> 6) @@ ("h" :> 7)

UpperCase == {"P", "N", "B", "R", "Q", "K", "X"}

\* char::to_ascii_lowercase on the letters used
ToLower ==
  ("P" :> "p") @@ ("N" :> "n") @@ ("B" :> "b") @@ ("R" :> "r") @@ ("Q" :> "q")
    @@ ("K" :> "k") @@ ("X" :> "x")

\* Piece::from_char; NONE stands for the abort of unreachable!()
from_char(ch) ==
  LET l == IF ch \in DOMAIN ToLower THEN ToLower[ch] ELSE ch
  IN CASE l = "p" -> PAWN
       [] l = "n" -> KNIGHT
       [] l = "b" -> BISHOP
       [] l = "r" -> ROOK
       [] l = "q" -> QUEEN
       [] l = "k" -> KING
       [] OTHER -> NONE

\* Square::from_str on <<file letter, rank digit>>
square_from_str(sq) == (Digits[sq[2]] - 1) * 8 + Files[sq[1]]

\* the placement loop over the characters `chars` (ranks reversed, then
\* concatenated): digits advance sq, letters set a bit and advance by one
RECURSIVE place(_, _, _)
place(chars, bb, sq) ==
  IF chars = <<>> THEN [bb |-> bb, err |-> "ok"]
  ELSE LET ch == Head(chars)
       IN IF ch \in DOMAIN Digits
            THEN place(Tail(chars), bb, sq + Digits[ch])
          ELSE IF from_char(ch) = NONE
            THEN [bb |-> bb, err |-> "Invalid piece character"]
          ELSE IF sq > 63
            THEN [bb |-> bb, err |-> "shift overflow"]
          ELSE LET color == IF ch \in UpperCase THEN 0 ELSE 1
               IN place(Tail(chars),
                        [bb EXCEPT ![color][from_char(ch)] = @ \cup {sq}], sq + 1)

Reverse(s) == [i \in 1..Len(s) |-> s[Len(s) + 1 - i]]

\* Position::from_str: the hash field keeps the 0 of Position::new()
from_str(fen) ==
  LET pos == PositionNew
      placed == place(Flatten(Reverse(fen.ranks)), pos.pieces_bb, 0)
      castling == (IF "K" \in fen.castling THEN WHITE_00 ELSE {})
                    \cup (IF "Q" \in fen.castling THEN WHITE_000 ELSE {})
                    \cup (IF "k" \in fen.castling THEN BLACK_00 ELSE {})
                    \cup (IF "q" \in fen.castling THEN BLACK_000 ELSE {})
      frame == [StateNew EXCEPT
                  !.turn = IF fen.side = "w" THEN WHITE ELSE BLACK,
                  !.castling = castling,
                  !.ep = IF fen.ep = "-" THEN NONE ELSE square_from_str(fen.ep),
                  !.hm = fen.hm,
                  !.fm = fen.fm]
      P1 == [pos EXCEPT !.pieces_bb = placed.bb, !.history[0] = frame]
  IN IF placed.err # "ok" THEN Fail(pos, placed.err)
     ELSE IF placed.bb[WHITE][KING] = {} \/ placed.bb[BLACK][KING] = {}
       THEN Fail([pos EXCEPT !.pieces_bb = placed.bb], "One king is missing")
     ELSE LET t == check_and_pin(P1)
              P2 == [P1 EXCEPT !.checkmask = t[1], !.pin_hv = t[2], !.pin_d12 = t[3]]
          IN Ok([P2 EXCEPT !.danger = attacks(P2)])

Fen(ranks, side, castling, ep, hm, fm) ==
  [ranks |-> ranks, side |-> side, castling |-> castling, ep |-> ep, hm |-> hm, fm |-> fm]

Empty8 == <<"8">>

\* 2r1k3/8/8/8/8/p6p/P6P/R3K2R w KQ - 0 1
FenCastle ==
  Fen(<<<<"2", "r", "1", "k", "3">>, Empty8, Empty8, Empty8, Empty8, <<"p", "6", "p">>,
        <<"P", "6", "P">>, <<"R", "3", "K", "2", "R">>>>, "w", {"K", "Q"}, "-", 0, 1)

\* 4k2r/6P1/8/8/8/8/8/4K3 w k - 0 1
FenPromote ==
  Fen(<<<<"4", "k", "2", "r">>, <<"6", "P", "1">>, Empty8, Empty8, Empty8, Empty8, Empty8,
        <<"4", "K", "3">>>>, "w", {"k"}, "-", 0, 1)

\* 4k3/8/8/8/5p2/8/4P3/4K3 w - - 0 1
FenEnPassant ==
  Fen(<<<<"4", "k", "3">>, Empty8, Empty8, Empty8, <<"5", "p", "2">>, Empty8, <<"4", "P", "3">>,
        <<"4", "K", "3">>>>, "w", {}, "-", 0, 1)

\* 8/8/8/4B3/5p2/8/4P2k/4K3 w - - 0 1
FenEnPassantPinned ==
  Fen(<<Empty8, Empty8, Empty8, <<"4", "B", "3">>, <<"5", "p", "2">>, Empty8, <<"4", "P", "2", "k">>,
        <<"4", "K", "3">>>>, "w", {}, "-", 0, 1)

\* 4k2r/6K1/8/8/8/8/8/8 w k - 0 1
FenKingTakesRook ==
  Fen(<<<<"4", "k", "2", "r">>, <<"6", "K", "1">>, Empty8, Empty8, Empty8, Empty8, Empty8, Empty8>>,
      "w", {"k"}, "-", 0, 1)

\* r3k2r/p6p/P6P/8/8/8/8/4K3 b kq - 3 7
FenBlackCastle ==
  Fen(<<<<"r", "3", "k", "2", "r">>, <<"p", "6", "p">>, <<"P", "6", "P">>, Empty8, Empty8, Empty8, Empty8,
        <<"4", "K", "3">>>>, "b", {"k", "q"}, "-", 3, 7)

\* 4k3/8/8/3p4/1b2P3/8/3N4/4K3 w - - 0 1
FenPin ==
  Fen(<<<<"4", "k", "3">>, Empty8, Empty8, <<"3", "p", "4">>, <<"1", "b", "2", "P", "3">>, Empty8,
        <<"3", "N", "4">>, <<"4", "K", "3">>>>, "w", {}, "-", 0, 1)

\* 4k3/8/8/8/8/3n2b1/5P2/4K3 w - - 0 1
FenPinnedInCheck ==
  Fen(<<<<"4", "k", "3">>, Empty8, Empty8, Empty8, Empty8, <<"3", "n", "2", "b", "1">>,
        <<"5", "P", "2">>, <<"4", "K", "3">>>>, "w", {}, "-", 0, 1)

\* 4r2k/8/8/4n3/8/R7/8/4K3 b - - 0 1
FenDoubleCheck ==
  Fen(<<<<"4", "r", "2", "k">>, Empty8, Empty8, <<"4", "n", "3">>, Empty8, <<"R", "7">>, Empty8,
        <<"4", "K", "3">>>>, "b", {}, "-", 0, 1)

\* 4k3/4q3/8/q7/1p6/8/4P3/4K3 w - - 0 1
FenQueenLines ==
  Fen(<<<<"4", "k", "3">>, <<"4", "q", "3">>, Empty8, <<"q", "7">>, <<"1", "p", "6">>, Empty8,
        <<"4", "P", "3">>, <<"4", "K", "3">>>>, "w", {}, "-", 0, 1)

\* 8/8/8/8/k4p1R/8/4P3/4K3 w - - 0 1
FenEpDiscovered ==
  Fen(<<Empty8, Empty8, Empty8, Empty8, <<"k", "4", "p", "1", "R">>, Empty8, <<"4", "P", "3">>,
        <<"4", "K", "3">>>>, "w", {}, "-", 0, 1)

\* 4k2r/8/8/8/5p2/8/4P3/4K3 w k - 0 1
FenCastleEp ==
  Fen(<<<<"4", "k", "2", "r">>, Empty8, Empty8, Empty8, <<"5", "p", "2">>, Empty8, <<"4", "P", "3">>,
        <<"4", "K", "3">>>>, "w", {"k"}, "-", 0, 1)

\* 4k3/4p3/8/3P4/5K2/8/8/8 b - - 0 1
FenEpCheck ==
  Fen(<<<<"4", "k", "3">>, <<"4", "p", "3">>, Empty8, <<"3", "P", "4">>, <<"5", "K", "2">>, Empty8,
        Empty8, Empty8>>, "b", {}, "-", 0, 1)

\* 4k3/4p3/8/p2P4/r1P2K2/P7/8/8 b - - 0 1
FenEpCheckRook ==
  Fen(<<<<"4", "k", "3">>, <<"4", "p", "3">>, Empty8, <<"p", "2", "P", "4">>,
        <<"r", "1", "P", "2", "K", "2">>, <<"P", "7">>, Empty8, Empty8>>, "b", {}, "-", 0, 1)

\* 4r2k/8/8/2p5/3nK3/8/8/8 w - - 0 1
FenKingRay ==
  Fen(<<<<"4", "r", "2", "k">>, Empty8, Empty8, <<"2", "p", "5">>, <<"3", "n", "K", "3">>, Empty8,
        Empty8, Empty8>>, "w", {}, "-", 0, 1)

\* the positions the exploration starts from
Fens ==
  <<FenPinnedInCheck, FenCastle, FenPromote, FenEnPassant, FenEnPassantPinned,
    FenKingTakesRook, FenBlackCastle, FenPin, FenDoubleCheck, FenQueenLines,
    FenEpDiscovered, FenCastleEp, FenEpCheck, FenEpCheckRook, FenKingRay>>

(***************************************************************************)
(* The state machine: one Position driven as perft drives it (testing.rs   *)
(* 10-22): legal(), make_move of a returned move, undo_move of the last    *)
(* made move.                                                              *)
(***************************************************************************)
\* most plies made and not undone
MaxPly == 2

\* most make_move and undo_move calls in a run
MaxOps == 3

VARIABLES
  ply, pieces_bb, history, hash, pin_hv, pin_d12, danger, checkmask,
  status,   \* "ok", or the abort or divergence that ended the run
  moves,    \* the moves made and not yet undone (perft's `mv` per depth)
  snaps,    \* the position before each of those moves
  popped,   \* the move the last undo_move undid and the position before it
  lastOp,   \* "init", "make", "undo" or "legal"
  ops,      \* make_move and undo_move calls so far
  arg,      \* the input of the call under test (FEN, Move::new arguments, ..)
  ret,      \* what the call under test has returned or yielded so far
  frames,   \* the activations of perft, outermost first
  list,     \* a MoveList under test
  iter      \* a MoveListIterator over `list`

posVars == <<ply, pieces_bb, history, hash, pin_hv, pin_d12, danger, checkmask>>

\* the variables of the calls under test
callVars == <<arg, ret, frames, list, iter>>

vars == <<ply, pieces_bb, history, hash, pin_hv, pin_d12, danger, checkmask,
          status, moves, snaps, popped, lastOp, ops, arg, ret, frames, list, iter>>

Pos ==
  [ply |-> ply, pieces_bb |-> pieces_bb, history |-> history, hash |-> hash,
   pin_hv |-> pin_hv, pin_d12 |-> pin_d12, danger |-> danger, checkmask |-> checkmask]

SetPos(P) ==
  /\ ply' = P.ply
  /\ pieces_bb' = P.pieces_bb
  /\ history' = P.history
  /\ hash' = P.hash
  /\ pin_hv' = P.pin_hv
  /\ pin_d12' = P.pin_d12
  /\ danger' = P.danger
  /\ checkmask' = P.checkmask

Init ==
  \E i \in 1..Len(Fens) :
    \E r \in {from_str(Fens[i])} :
       /\ r.err = "ok"
       /\ ply = r.p.ply
       /\ pieces_bb = r.p.pieces_bb
       /\ history = r.p.history
       /\ hash = r.p.hash
       /\ pin_hv = r.p.pin_hv
       /\ pin_d12 = r.p.pin_d12
       /\ danger = r.p.danger
       /\ checkmask = r.p.checkmask
       /\ status = "ok"
       /\ moves = <<>>
       /\ snaps = <<>>
       /\ popped = [pos |-> r.p, mv |-> NONE]
       /\ lastOp = "init"
       /\ ops = 0
       /\ arg = Fens[i]
       /\ ret = NONE
       /\ frames = <<>>
       /\ list = NONE
       /\ iter = NONE

\* pos.make_move(mv) for a move mv of pos.legal()
MakeMove ==
  /\ status = "ok"
  /\ ops < MaxOps
  /\ ply < MaxPly
  /\ \E L \in {legal(Pos)} :
        /\ L.outcome = "ok"
        /\ \E i \in 1..Len(L.list) :
             \E r \in {make_move(Pos, L.list[i])} :
                /\ SetPos(r.p)
                /\ status' = r.err
                /\ moves' = Append(moves, L.list[i])
                /\ snaps' = Append(snaps, Pos)
  /\ popped' = popped
  /\ lastOp' = "make"
  /\ ops' = ops + 1
  /\ UNCHANGED callVars

\* pos.undo_move(mv) for the last move made
UndoMove ==
  /\ status = "ok"
  /\ ops < MaxOps
  /\ moves # <<>>
  /\ \E r \in {undo_move(Pos, moves[Len(moves)])} :
        /\ SetPos(r.p)
        /\ status' = r.err
  /\ moves' = SubSeq(moves, 1, Len(moves) - 1)
  /\ snaps' = SubSeq(snaps, 1, Len(snaps) - 1)
  /\ popped' = [pos |-> snaps[Len(snaps)], mv |-> moves[Len(moves)]]
  /\ lastOp' = "undo"
  /\ ops' = ops + 1
  /\ UNCHANGED callVars

\* pos.legal() does not return
LegalFails ==
  /\ status = "ok"
  /\ \E L \in {legal(Pos)} :
        /\ L.outcome # "ok"
        /\ status' = L.outcome
  /\ lastOp' = "legal"
  /\ UNCHANGED <<posVars, moves, snaps, popped, ops, callVars>>

Next == MakeMove \/ UndoMove \/ LegalFails

Spec == Init /\ [][Next]_vars

(***************************************************************************)
(* FEN construction on its own: Position::from_str applied to well-formed  *)
(* and to invalid FEN strings.  The function has the return type           *)
(* Result<Position, String>; ret is "Ok" when it returns Ok(pos), "Err"    *)
(* when it returns an Err, "panic" when it aborts.                         *)
(***************************************************************************)
\* no Position has been constructed
NoPosition ==
  /\ ply = NONE
  /\ pieces_bb = NONE
  /\ history = NONE
  /\ hash = NONE
  /\ pin_hv = NONE
  /\ pin_d12 = NONE
  /\ danger = NONE
  /\ checkmask = NONE

\* the perft driver is not running
NoDriver ==
  /\ moves = <<>>
  /\ snaps = <<>>
  /\ popped = NONE
  /\ ops = 0

\* rank 8 and rank 1 of the FEN inputs; "x" and "X" are no piece letters
TopRanks ==
  {<<"4", "k", "3">>, <<"r", "3", "k", "2", "r">>, Empty8, <<"4", "k", "2", "x">>,
   <<"4", "q", "3">>}

BottomRanks ==
  {<<"4", "K", "3">>, <<"R", "3", "K", "2", "R">>, Empty8, <<"X", "3", "K", "3">>,
   <<"4", "Q", "3">>}

FenInputs ==
  {Fen(<<t, Empty8, Empty8, Empty8, Empty8, Empty8, Empty8, b>>, side, castling, "-", 0, 1) :
     t \in TopRanks, b \in BottomRanks, side \in {"w", "b"},
     castling \in {{}, {"K", "Q"}, {"k", "q"}, {"K", "Q", "k", "q"}}}

FenInit ==
  /\ arg \in FenInputs
  /\ ret = NONE
  /\ NoPosition
  /\ NoDriver
  /\ status = "new"
  /\ lastOp = "none"
  /\ frames = <<>>
  /\ list = NONE
  /\ iter = NONE

\* Position::from_str(arg): the only return is `Ok(pos)` (lib.rs 1300)
FromStr ==
  /\ lastOp = "none"
  /\ \E r \in {from_str(arg)} :
        /\ status' = r.err
        /\ IF r.err = "ok"
             THEN SetPos(r.p) /\ ret' = "Ok"
             ELSE UNCHANGED posVars /\ ret' = "panic"
  /\ lastOp' = "from_str"
  /\ UNCHANGED <<moves, snaps, popped, ops, arg, frames, list, iter>>

FenNext == FromStr

FenSpec == FenInit /\ [][FenNext]_vars

(***************************************************************************)
(* perft (testing.rs 10-22) as test_perft! runs it (testing.rs 73-90).     *)
(* An activation of perft is [pos, depth, moves, index, nodes]: its own    *)
(* copy of the position, the list legal() returned, the index of the       *)
(* iterator of the `for` loop and the local sum.  `pos` is passed by       *)
(* value: the callee works on a copy.                                      *)
(***************************************************************************)
\* rnbqkbnr/pppppppp/8/8/8/8/PPPPPPPP/RNBQKBNR w KQkq - 0 1
FenStart ==
  Fen(<<<<"r", "n", "b", "q", "k", "b", "n", "r">>, <<"p", "p", "p", "p", "p", "p", "p", "p">>,
        Empty8, Empty8, Empty8, Empty8,
        <<"P", "P", "P", "P", "P", "P", "P", "P">>, <<"R", "N", "B", "Q", "K", "B", "N", "R">>>>,
      "w", {"K", "Q", "k", "q"}, "-", 0, 1)

\* the depths perft is called with
PerftDepths == 0..3

\* perft that returns 0 at depth 0
perft_enter_leaf_zero(P, depth) ==
  IF depth = 0
    THEN [frame |-> [pos |-> P, depth |-> 0, moves |-> <<>>, index |-> 0, nodes |-> 0],
          err |-> "ok"]
    ELSE [frame |-> [pos |-> P, depth |-> depth, moves |-> legal(P).list, index |-> 0,
                     nodes |-> 0],
          err |-> legal(P).outcome]

\* the activation perft(pos, depth) starts with: `if depth == 0 { return 1; }`,
\* otherwise `moves = pos.legal(); nodes = 0`
perft_enter(P, depth) ==
  IF depth = 0
    THEN [frame |-> [pos |-> P, depth |-> 0, moves |-> <<>>, index |-> 0, nodes |-> 1],
          err |-> "ok"]
    ELSE [frame |-> [pos |-> P, depth |-> depth, moves |-> legal(P).list, index |-> 0,
                     nodes |-> 0],
          err |-> legal(P).outcome]

Top == frames[Len(frames)]

PerftInit ==
  /\ \E d \in PerftDepths :
       \E r \in {from_str(FenStart)} :
         \E e \in {perft_enter(r.p, d)} :
            /\ arg = [fen |-> FenStart, depth |-> d]
            /\ frames = <<e.frame>>
            /\ status = e.err
  /\ ret = NONE
  /\ NoPosition
  /\ NoDriver
  /\ lastOp = "call"
  /\ list = NONE
  /\ iter = NONE

\* `for mv in moves { pos.make_move(mv); .. perft(pos, depth - 1)`: the
\* iterator yields the next move, the move is made and perft is entered
\* with a copy of the position
PerftMake ==
  /\ status = "ok"
  /\ frames # <<>>
  /\ Top.index < Len(Top.moves)
  /\ \E r \in {make_move(Top.pos, Top.moves[Top.index + 1])} :
        \E e \in {perft_enter(r.p, Top.depth - 1)} :
           /\ frames' = Append([frames EXCEPT ![Len(frames)].pos = r.p,
                                               ![Len(frames)].index = @ + 1],
                               e.frame)
           /\ status' = IF r.err # "ok" THEN r.err ELSE e.err
  /\ lastOp' = "make"
  /\ UNCHANGED <<posVars, moves, snaps, popped, ops, arg, ret, list, iter>>

\* the inner perft returns: `nodes += perft(..); pos.undo_move(mv);`
PerftReturn ==
  /\ status = "ok"
  /\ Len(frames) > 1
  /\ Top.index = Len(Top.moves)
  /\ LET caller == frames[Len(frames) - 1]
     IN \E r \in {undo_move(caller.pos, caller.moves[caller.index])} :
          /\ frames' = [SubSeq(frames, 1, Len(frames) - 1) EXCEPT
                          ![Len(frames) - 1].nodes = @ + Top.nodes,
                          ![Len(frames) - 1].pos = r.p]
          /\ status' = r.err
  /\ lastOp' = "undo"
  /\ UNCHANGED <<posVars, moves, snaps, popped, ops, arg, ret, list, iter>>

\* the outermost perft returns `nodes`
PerftDone ==
  /\ status = "ok"
  /\ Len(frames) = 1
  /\ Top.index = Len(Top.moves)
  /\ ret' = Top.nodes
  /\ frames' = <<>>
  /\ lastOp' = "return"
  /\ UNCHANGED <<posVars, status, moves, snaps, popped, ops, arg, list, iter>>

PerftNext == PerftMake \/ PerftReturn \/ PerftDone

PerftSpec == PerftInit /\ [][PerftNext]_vars

(***************************************************************************)
(* MoveList as the struct it is (types.rs 89-152, 280-309): the array of   *)
(* MOVELIST_CAP moves and `len`; MoveListIterator: a copy of the list and  *)
(* `index`.                                                                *)
(***************************************************************************)
\* MoveList::new
MoveList_new == [array |-> [i \in 0..(MOVELIST_CAP - 1) |-> MOVE_EMPTY], len |-> 0]

\* MoveList::add: the array index aborts when the list is full
MoveList_add(l, from, to, flag) ==
  IF l.len >= MOVELIST_CAP
    THEN [l |-> l, err |-> "index out of bounds"]
    ELSE [l |-> [array |-> [l.array EXCEPT ![l.len] = MoveNew(from, to, flag)],
                 len |-> l.len + 1],
          err |-> "ok"]

\* MoveList::extend: `while to != 0 { s = to.get_lsb().bit_scan();
\*                     self.add(from, s, flag); to = to.pop_lsb() }`
RECURSIVE MoveList_extend(_, _, _, _)
MoveList_extend(l, from, to, flag) ==
  IF to = {} THEN [l |-> l, err |-> "ok"]
  ELSE LET r == MoveList_add(l, from, bit_scan(get_lsb(to)), flag)
       IN IF r.err # "ok" THEN r ELSE MoveList_extend(r.l, from, pop_lsb(to), flag)

\* the four adds of one branch of MoveList::add_promotions
RECURSIVE MoveList_add_flags(_, _, _, _)
MoveList_add_flags(l, from, to, flags) ==
  IF flags = <<>> THEN [l |-> l, err |-> "ok"]
  ELSE LET r == MoveList_add(l, from, to, Head(flags))
       IN IF r.err # "ok" THEN r ELSE MoveList_add_flags(r.l, from, to, Tail(flags))

\* MoveList::add_promotions
MoveList_add_promotions(l, from, to, capture) ==
  IF capture THEN MoveList_add_flags(l, from, to, <<PC_N, PC_B, PC_R, PC_Q>>)
             ELSE MoveList_add_flags(l, from, to, <<PR_N, PR_B, PR_R, PR_Q>>)

\* MoveList::count
MoveList_count(l) == l.len

\* `for m in &self.array { if m == &Move::EMPTY { break; } ... }`: the index
\* at which the scans of count_* stop
ScanEnd(l) ==
  IF \A i \in 0..(MOVELIST_CAP - 1) : l.array[i] # MOVE_EMPTY
    THEN MOVELIST_CAP
    ELSE CHOOSE i \in 0..(MOVELIST_CAP - 1) :
           /\ l.array[i] = MOVE_EMPTY
           /\ \A j \in 0..(i - 1) : l.array[j] # MOVE_EMPTY

\* MoveList::count_promotions
MoveList_count_promotions(l) ==
  Cardinality({i \in 0..(ScanEnd(l) - 1) :
                 MoveFlag(l.array[i]) >= PR_N /\ MoveFlag(l.array[i]) <= PC_Q})

\* MoveList::count_captures
MoveList_count_captures(l) ==
  Cardinality({i \in 0..(ScanEnd(l) - 1) :
                 \/ MoveFlag(l.array[i]) = CAPTURE
                 \/ MoveFlag(l.array[i]) >= PC_N /\ MoveFlag(l.array[i]) <= PC_Q})

\* MoveList::count_enpassants
MoveList_count_enpassants(l) ==
  Cardinality({i \in 0..(ScanEnd(l) - 1) : MoveFlag(l.array[i]) = EN_PASSANT})

\* MoveList::count_castles
MoveList_count_castles(l) ==
  Cardinality({i \in 0..(ScanEnd(l) - 1) :
                 MoveFlag(l.array[i]) \in {CASTLE_00, CASTLE_000}})

\* MoveList::get: `if i <= self.len { panic!("Out of bounds") } self.array[i]`;
\* the array index aborts beyond the array
MoveList_get(l, i) ==
  IF i <= l.len THEN [item |-> NONE, err |-> "Out of bounds"]
  ELSE IF i >= MOVELIST_CAP THEN [item |-> NONE, err |-> "index out of bounds"]
  ELSE [item |-> l.array[i], err |-> "ok"]

\* MoveList::into_iter
MoveList_into_iter(l) == [list |-> l, index |-> 0, finish |-> FALSE]

\* an iterator that ends at the first Move::EMPTY of the array
MoveListIterator_next_to_empty(it) ==
  IF it.index = it.list.len \/ it.list.array[it.index] = MOVE_EMPTY
    THEN [it |-> it, item |-> NONE]
    ELSE [it |-> [it EXCEPT !.index = @ + 1], item |-> it.list.array[it.index]]

\* MoveListIterator::next; item is NONE for Option::None
MoveListIterator_next(it) ==
  IF it.index = it.list.len
    THEN [it |-> it, item |-> NONE]
    ELSE [it |-> [it EXCEPT !.index = @ + 1], item |-> it.list.array[it.index]]

\* most add, extend and add_promotions calls on a list
MaxEmits == 3

\* the arguments the calls are made with
AddArgs == {<<A1, A1, QUIET>>, <<12, 28, DOUBLE_PUSH>>, <<E1, G1, CASTLE_00>>,
            <<36, 43, EN_PASSANT>>}

ExtendArgs == {<<12, {}, QUIET>>, <<27, {44, 10, H8, 17}, CAPTURE>>}

PromotionArgs == {<<52, E8, FALSE>>, <<52, 61, TRUE>>}

\* arg is the sequence of the calls made on the list, ret the sequence of
\* the moves the iterator has yielded
ListInit ==
  /\ list = MoveList_new
  /\ iter = NONE
  /\ arg = <<>>
  /\ ret = <<>>
  /\ NoPosition
  /\ NoDriver
  /\ status = "ok"
  /\ lastOp = "new"
  /\ frames = <<>>

Emitting == status = "ok" /\ lastOp \in {"new", "emit"} /\ Len(arg) < MaxEmits

Emitted(r, call) ==
  /\ list' = r.l
  /\ status' = r.err
  /\ arg' = Append(arg, call)
  /\ lastOp' = "emit"
  /\ UNCHANGED <<posVars, moves, snaps, popped, ops, ret, frames, iter>>

\* list.add(from, to, flag)
ListAdd ==
  /\ Emitting
  /\ \E a \in AddArgs :
       \E r \in {MoveList_add(list, a[1], a[2], a[3])} :
          Emitted(r, [op |-> "add", from |-> a[1], to |-> a[2], flag |-> a[3]])

\* list.extend(from, to, flag)
ListExtend ==
  /\ Emitting
  /\ \E a \in ExtendArgs :
       \E r \in {MoveList_extend(list, a[1], a[2], a[3])} :
          Emitted(r, [op |-> "extend", from |-> a[1], to |-> a[2], flag |-> a[3]])

\* list.add_promotions(from, to, capture)
ListAddPromotions ==
  /\ Emitting
  /\ \E a \in PromotionArgs :
       \E r \in {MoveList_add_promotions(list, a[1], a[2], a[3])} :
          Emitted(r, [op |-> "add_promotions", from |-> a[1], to |-> a[2], flag |-> a[3]])

\* `for mv in list`: list.into_iter()
ListIntoIter ==
  /\ status = "ok"
  /\ lastOp \in {"new", "emit"}
  /\ iter' = MoveList_into_iter(list)
  /\ lastOp' = "iterate"
  /\ UNCHANGED <<posVars, status, moves, snaps, popped, ops, arg, ret, frames, list>>

\* iter.next(): Some(mv) is appended to ret, None ends the loop
ListNext ==
  /\ lastOp = "iterate"
  /\ \E r \in {MoveListIterator_next(iter)} :
        /\ iter' = r.it
        /\ IF r.item = NONE
             THEN ret' = ret /\ lastOp' = "end"
             ELSE ret' = Append(ret, r.item) /\ lastOp' = "iterate"
  /\ UNCHANGED <<posVars, status, moves, snaps, popped, ops, arg, frames, list>>

\* the four count_* calls on the list; popped holds what they return
ListCounts ==
  /\ status = "ok"
  /\ lastOp \in {"new", "emit"}
  /\ popped' = [promotions |-> MoveList_count_promotions(list),
                captures |-> MoveList_count_captures(list),
                enpassants |-> MoveList_count_enpassants(list),
                castles |-> MoveList_count_castles(list)]
  /\ lastOp' = "count"
  /\ UNCHANGED <<posVars, status, moves, snaps, ops, arg, ret, frames, list, iter>>

\* list.get(i) for the indexes up to one past len and for the array's
\* length; popped holds the index and the move returned
ListGet ==
  /\ status = "ok"
  /\ lastOp \in {"new", "emit"}
  /\ \E i \in 0..(list.len + 1) \cup {MOVELIST_CAP} :
       \E r \in {MoveList_get(list, i)} :
          /\ popped' = [i |-> i, item |-> r.item]
          /\ status' = r.err
  /\ lastOp' = "get"
  /\ UNCHANGED <<posVars, moves, snaps, ops, arg, ret, frames, list, iter>>

ListStep ==
  \/ ListAdd \/ ListExtend \/ ListAddPromotions \/ ListIntoIter \/ ListNext
  \/ ListCounts \/ ListGet

ListSpec == ListInit /\ [][ListStep]_vars

(***************************************************************************)
(* Move::new on every square pair and every defined flag, next to the     *)
(* moves legal() emits in the positions of Spec.                           *)
(***************************************************************************)
\* the fourteen flags of types.rs 10-23
MoveFlags == QUIET..PC_Q

MoveArgs == (0..63) \X (0..63) \X MoveFlags

MoveArgInit ==
  /\ arg \in MoveArgs
  /\ ret = NONE
  /\ NoPosition
  /\ NoDriver
  /\ status = "new"
  /\ lastOp = "none"
  /\ frames = <<>>
  /\ list = NONE
  /\ iter = NONE

\* Move::new(from, to, flag)
MoveNewCall ==
  /\ lastOp = "none"
  /\ ret' = MoveNew(arg[1], arg[2], arg[3])
  /\ lastOp' = "Move::new"
  /\ UNCHANGED <<posVars, status, moves, snaps, popped, ops, arg, frames, list, iter>>

MoveInit == Init \/ MoveArgInit

MoveNext == Next \/ MoveNewCall

MoveSpec == MoveInit /\ [][MoveNext]_vars

(***************************************************************************)
(* One long line of play from the start position: every make_move is      *)
(* called with the first move of legal(), and ops counts the calls.        *)
(***************************************************************************)
LineInit ==
  /\ \E r \in {from_str(FenStart)} :
        /\ r.err = "ok"
        /\ ply = r.p.ply
        /\ pieces_bb = r.p.pieces_bb
        /\ history = r.p.history
        /\ hash = r.p.hash
        /\ pin_hv = r.p.pin_hv
        /\ pin_d12 = r.p.pin_d12
        /\ danger = r.p.danger
        /\ checkmask = r.p.checkmask
  /\ status = "ok"
  /\ NoDriver
  /\ lastOp = "init"
  /\ arg = FenStart
  /\ ret = NONE
  /\ frames = <<>>
  /\ list = NONE
  /\ iter = NONE

\* pos.make_move(mv) for the first move mv of pos.legal()
LineMake ==
  /\ status = "ok"
  /\ \E L \in {legal(Pos)} :
        /\ L.outcome = "ok"
        /\ L.list # <<>>
        /\ \E r \in {make_move(Pos, L.list[1])} :
              /\ SetPos(r.p)
              /\ status' = r.err
              /\ ret' = L.list[1]
  /\ ops' = ops + 1
  /\ lastOp' = "make"
  /\ UNCHANGED <<moves, snaps, popped, arg, frames, list, iter>>

LineNext == LineMake

LineSpec == LineInit /\ [][LineNext]_vars

(***************************************************************************)
(* Reference notions of chess the properties are stated with: attack of a  *)
(* square on given bitboards, the board after a move, the legal moves.     *)
(***************************************************************************)
OccOf(bb) == UNION {bb[c][p] : c \in Colors, p \in Pieces}

\* a piece of color `by` on bitboards bb attacks square sq
RefAttacked(bb, sq, by) ==
  \/ \E s \in bb[by][PAWN] :
       /\ Rank(sq) = Rank(s) + (IF by = WHITE THEN 1 ELSE -1)
       /\ Abs(File(sq) - File(s)) = 1
  \/ \E s \in bb[by][KNIGHT] :
       {Abs(File(sq) - File(s)), Abs(Rank(sq) - Rank(s))} = {1, 2}
  \/ \E s \in bb[by][KING] : s # sq /\ Dist(s, sq) = 1
  \/ \E s \in bb[by][ROOK] \cup bb[by][QUEEN] :
       SameHV(s, sq) /\ between[s][sq] \cap OccOf(bb) = {}
  \/ \E s \in bb[by][BISHOP] \cup bb[by][QUEEN] :
       SameD12(s, sq) /\ between[s][sq] \cap OccOf(bb) = {}

\* the squares of the pieces of color `by` that attack square sq
RefAttackers(bb, sq, by) ==
  {s \in UNION {bb[by][p] : p \in Pieces} :
     \/ /\ s \in bb[by][PAWN]
        /\ Rank(sq) = Rank(s) + (IF by = WHITE THEN 1 ELSE -1)
        /\ Abs(File(sq) - File(s)) = 1
     \/ /\ s \in bb[by][KNIGHT]
        /\ {Abs(File(sq) - File(s)), Abs(Rank(sq) - Rank(s))} = {1, 2}
     \/ s \in bb[by][KING] /\ s # sq /\ Dist(s, sq) = 1
     \/ /\ s \in bb[by][ROOK] \cup bb[by][QUEEN]
        /\ SameHV(s, sq) /\ between[s][sq] \cap OccOf(bb) = {}
     \/ /\ s \in bb[by][BISHOP] \cup bb[by][QUEEN]
        /\ SameD12(s, sq) /\ between[s][sq] \cap OccOf(bb) = {}}

\* the pieces that attack the king of the side to move
Checkers(P) == RefAttackers(P.pieces_bb, king(P, Turn(P)), 1 - Turn(P))

RefColorAt(bb, sq) ==
  IF \E p \in Pieces : sq \in bb[WHITE][p] THEN WHITE
  ELSE IF \E p \in Pieces : sq \in bb[BLACK][p] THEN BLACK
  ELSE NONE

RefPromoted(flag) ==
  CASE flag \in {PR_N, PC_N} -> KNIGHT
    [] flag \in {PR_B, PC_B} -> BISHOP
    [] flag \in {PR_R, PC_R} -> ROOK
    [] flag \in {PR_Q, PC_Q} -> QUEEN
    [] OTHER -> NONE

\* the bitboards after the piece pc of color us moves from -> to with flag
RefAfter(bb, us, pc, from, to, flag) ==
  LET gone == {from, to}
                \cup (IF flag = EN_PASSANT
                        THEN {IF us = WHITE THEN to - 8 ELSE to + 8} ELSE {})
                \cup (IF flag = CASTLE_00 THEN {from + 3} ELSE {})
                \cup (IF flag = CASTLE_000 THEN {from - 4} ELSE {})
      landed == IF RefPromoted(flag) = NONE THEN pc ELSE RefPromoted(flag)
      rookTo == IF flag = CASTLE_00 THEN {from + 1}
                ELSE IF flag = CASTLE_000 THEN {from - 1} ELSE {}
  IN [c \in Colors |-> [p \in Pieces |->
       (bb[c][p] \ gone)
         \cup (IF c = us /\ p = landed THEN {to} ELSE {})
         \cup (IF c = us /\ p = ROOK THEN rookTo ELSE {})]]

RefSlides(bb, s, same(_, _)) ==
  {t \in Squares : same(s, t) /\ between[s][t] \cap OccOf(bb) = {}}

\* destinations of the piece pc of color us on s, own squares excluded
RefTargets(bb, us, pc, s) ==
  (CASE pc = KNIGHT ->
          {t \in Squares : {Abs(File(t) - File(s)), Abs(Rank(t) - Rank(s))} = {1, 2}}
     [] pc = KING -> {t \in Squares : t # s /\ Dist(s, t) = 1}
     [] pc = ROOK -> RefSlides(bb, s, SameHV)
     [] pc = BISHOP -> RefSlides(bb, s, SameD12)
     [] pc = QUEEN -> RefSlides(bb, s, SameHV) \cup RefSlides(bb, s, SameD12)
     [] OTHER -> {})
    \ UNION {bb[us][p] : p \in Pieces}

\* pseudo-legal moves <<piece, from, to, flag>> of the non-pawn pieces
RefPieceMoves(bb, us) ==
  {<<pc, s, t, IF RefColorAt(bb, t) = NONE THEN QUIET ELSE CAPTURE>> :
     <<pc, s, t>> \in {x \in (Pieces \ {PAWN}) \X Squares \X Squares :
                          x[2] \in bb[us][x[1]] /\ x[3] \in RefTargets(bb, us, x[1], x[2])}}

\* pseudo-legal pawn moves; ep is the en passant target or NONE
RefPawnMoves(bb, us, ep) ==
  LET up == IF us = WHITE THEN 8 ELSE -8
      last == IF us = WHITE THEN 7 ELSE 0
      home == IF us = WHITE THEN 1 ELSE 6
      occ == OccOf(bb)
      caps(s) == {t \in Squares : Rank(t) = Rank(s) + (up \div 8) /\ Abs(File(t) - File(s)) = 1}
  IN UNION {
       (IF (s + up) \in Squares \ occ
          THEN (IF Rank(s + up) = last
                  THEN {<<PAWN, s, s + up, f>> : f \in {PR_N, PR_B, PR_R, PR_Q}}
                  ELSE {<<PAWN, s, s + up, QUIET>>})
                 \cup (IF Rank(s) = home /\ (s + 2 * up) \notin occ
                         THEN {<<PAWN, s, s + 2 * up, DOUBLE_PUSH>>} ELSE {})
          ELSE {})
       \cup UNION {
              IF RefColorAt(bb, t) = 1 - us
                THEN (IF Rank(t) = last
                        THEN {<<PAWN, s, t, f>> : f \in {PC_N, PC_B, PC_R, PC_Q}}
                        ELSE {<<PAWN, s, t, CAPTURE>>})
              ELSE IF t = ep /\ (t - up) \in bb[1 - us][PAWN] /\ RefColorAt(bb, t) = NONE
                THEN {<<PAWN, s, t, EN_PASSANT>>}
              ELSE {} : t \in caps(s)}
       : s \in bb[us][PAWN]}

\* castling moves that the rules of chess allow
RefCastles(bb, us, castling) ==
  LET k == KING_START[us + 1]
      occ == OccOf(bb)
      safe(S) == \A t \in S : ~RefAttacked(bb, t, 1 - us)
  IN (IF /\ SHORT[us + 1] \cap castling # {}
         /\ k \in bb[us][KING] /\ (k + 3) \in bb[us][ROOK]
         /\ {k + 1, k + 2} \cap occ = {}
         /\ safe({k, k + 1, k + 2})
        THEN {<<KING, k, k + 2, CASTLE_00>>} ELSE {})
     \cup
     (IF /\ LONG[us + 1] \cap castling # {}
         /\ k \in bb[us][KING] /\ (k - 4) \in bb[us][ROOK]
         /\ {k - 1, k - 2, k - 3} \cap occ = {}
         /\ safe({k, k - 1, k - 2})
        THEN {<<KING, k, k - 2, CASTLE_000>>} ELSE {})

\* the moves of the side to move allowed by the rules of chess, encoded
RefLegal(P) ==
  LET bb == P.pieces_bb
      state == actual_state(P)
      us == state.turn
      pseudo == RefPieceMoves(bb, us) \cup RefPawnMoves(bb, us, state.ep)
                  \cup RefCastles(bb, us, state.castling)
      ok(m) == LET after == RefAfter(bb, us, m[1], m[2], m[3], m[4])
               IN \A k \in after[us][KING] : ~RefAttacked(after, k, 1 - us)
  IN {MoveNew(m[2], m[3], m[4]) : m \in {x \in pseudo : ok(x)}}

Range(s) == {s[i] : i \in 1..Len(s)}

\* the move that led to the current position
LastMove == moves[Len(moves)]

(***************************************************************************)
(* Properties                                                              *)
(***************************************************************************)
\* C1: make_move(m) followed by undo_move(m), for a move m of legal() on a
\* reachable position P, restores the twelve piece bitboards, ply, the
\* history frames 0..=ply and the cached checkmask, pin_hv, pin_d12 and
\* danger to their values in P.
C1_MakeUndoRestores ==
  (lastOp = "undo" /\ status = "ok") =>
    /\ pieces_bb = popped.pos.pieces_bb
    /\ ply = popped.pos.ply
    /\ \A i \in 0..ply : history[i] = popped.pos.history[i]
    /\ checkmask = popped.pos.checkmask
    /\ pin_hv = popped.pos.pin_hv
    /\ pin_d12 = popped.pos.pin_d12
    /\ danger = popped.pos.danger

\* a capture made at ply 1 in a position with a pinned or checked side has
\* been undone
C1_Witness ==
  /\ lastOp = "undo" /\ status = "ok"
  /\ MoveFlag(popped.mv) = CAPTURE
  /\ ply = 1
  /\ popped.pos.history[1].captured # NONE

\* C2: make_move(m) followed by undo_move(m) restores the piece-placement
\* hash to its value before the move, for every flag.
C2_MakeUndoRestoresHash ==
  (lastOp = "undo" /\ status = "ok") => hash = popped.pos.hash

\* the piece-placement hash recomputed from scratch
FullHash(P) ==
  {ZOBRIST_PIECES(c, p, sq) : <<c, p, sq>> \in
     {x \in Colors \X Pieces \X Squares : x[3] \in P.pieces_bb[x[1]][x[2]]}}

\* C3: after FEN construction and after any make_move/undo_move the stored
\* hash is the XOR of ZOBRIST_PIECES[c][p][sq] over the occupied (c, p, sq).
C3_HashIsXorOfOccupied ==
  status = "ok" => hash = FullHash(Pos)

\* C4: after make_move(m) of a move of legal() the king of the side that
\* moved is not attacked by a piece of the side now to move.
C4_MoverKingSafe ==
  (lastOp = "make" /\ status = "ok") =>
    \A k \in pieces_bb[1 - Turn(Pos)][KING] :
      ~RefAttacked(pieces_bb, k, Turn(Pos))

\* C5: every pseudo-legal move of the side to move, with its flag, that
\* leaves the mover's king unattacked is in the list legal() returns.
C5_LegalComplete ==
  status = "ok" =>
    /\ legal(Pos).outcome = "ok"
    /\ RefLegal(Pos) \subseteq Range(legal(Pos).list)

\* C6: legal() terminates and returns at most 218 moves in every reachable
\* position, an attacked en passant target included.
C6_LegalTerminates ==
  status = "ok" =>
    /\ legal(Pos).outcome = "ok"
    /\ Len(legal(Pos).list) <= MOVELIST_CAP

\* C7: make_move(m) of a move of legal() and the matching undo_move(m)
\* complete without aborting.
C7_MakeUndoComplete ==
  lastOp \in {"make", "undo"} => status = "ok"

\* C8: each square belongs to at most one of the twelve piece bitboards.
C8_Disjoint ==
  \A sq \in occupancy(Pos) : Cardinality(Occupants(Pos, sq)) <= 1

\* a capture has just been made: the captured piece left the target square
C8_Witness ==
  /\ lastOp = "make" /\ status = "ok"
  /\ MoveFlag(LastMove) = CAPTURE
  /\ history[ply].captured # NONE
  /\ Cardinality(Occupants(Pos, MoveTo(LastMove))) = 1

\* C9: the white king bitboard and the black king bitboard each hold
\* exactly one square.
C9_KingUnique ==
  \A c \in Colors : Cardinality(pieces_bb[c][KING]) = 1

\* the castling bits of the current frame name kings and rooks at home
CastlingAtHome(P) ==
  LET c == actual_state(P).castling
  IN /\ (c \cap WHITE_00 # {}) => (E1 \in P.pieces_bb[WHITE][KING] /\ H1 \in P.pieces_bb[WHITE][ROOK])
     /\ (c \cap WHITE_000 # {}) => (E1 \in P.pieces_bb[WHITE][KING] /\ A1 \in P.pieces_bb[WHITE][ROOK])
     /\ (c \cap BLACK_00 # {}) => (E8 \in P.pieces_bb[BLACK][KING] /\ H8 \in P.pieces_bb[BLACK][ROOK])
     /\ (c \cap BLACK_000 # {}) => (E8 \in P.pieces_bb[BLACK][KING] /\ A8 \in P.pieces_bb[BLACK][ROOK])

\* C10: every castling bit still set has its king on the start square and
\* its rook on the home corner, after any make_move from a position that
\* satisfies this; a capture of a rook on its home corner, by a king too,
\* clears that rook's right.
C10_CastlingRights ==
  status = "ok" => CastlingAtHome(Pos)

\* C11: after make_move(m) the current frame's ep is the square the pawn
\* passed over (rank 3 after White, rank 6 after Black) when m is a
\* DOUBLE_PUSH and None after any other move, whatever the frame of that
\* ply held in earlier make/undo cycles.
C11_EpOnlyAfterDoublePush ==
  (lastOp = "make" /\ status = "ok") =>
    IF MoveFlag(LastMove) = DOUBLE_PUSH
      THEN /\ history[ply].ep # NONE
           /\ 2 * history[ply].ep = MoveFrom(LastMove) + MoveTo(LastMove)
           /\ Rank(history[ply].ep) = (IF Turn(Pos) = BLACK THEN 2 ELSE 5)
      ELSE history[ply].ep = NONE

\* a move other than a double push has been made at the ply at which a
\* double push was made and undone before
C11_Witness ==
  /\ lastOp = "make" /\ status = "ok"
  /\ ply = 1
  /\ popped.mv # NONE /\ MoveFlag(popped.mv) = DOUBLE_PUSH
  /\ popped.pos.ply = 0
  /\ MoveFlag(LastMove) # DOUBLE_PUSH
  /\ history[ply].ep = NONE

IdleQueens(P) ==
  {s \in P.pieces_bb[1 - Turn(P)][QUEEN] :
     /\ line[king(P, Turn(P))][s] # {}
     /\ s \notin Checkers(P)}

EpDiscoverers(P) ==
  LET state == actual_state(P)
      us == state.turn
      kng == king(P, us)
      pushed == state.ep + (IF us = WHITE THEN -8 ELSE 8)
  IN IF state.ep = NONE THEN {}
     ELSE {c \in P.pieces_bb[us][PAWN] :
             /\ Rank(state.ep) = Rank(c) + (IF us = WHITE THEN 1 ELSE -1)
             /\ Abs(File(state.ep) - File(c)) = 1
             /\ pushed \in P.pieces_bb[1 - us][PAWN]
             /\ \E r \in hv_sliders(P, 1 - us) :
                  /\ Rank(r) = Rank(kng)
                  /\ between[kng][r] \cap occupancy(P) = {c, pushed}}

\* C14: when the capturing pawn and the pawn that just double-pushed are
\* the only pieces between the king of the side to move and an enemy rook
\* or queen on the king's rank, legal() returns a list with no EN_PASSANT
\* move of that pawn.
C14_NoDiscoveringEnPassant ==
  status = "ok" =>
    \A c \in EpDiscoverers(Pos) :
      /\ legal(Pos).outcome = "ok"
      /\ MoveNew(c, actual_state(Pos).ep, EN_PASSANT) \notin Range(legal(Pos).list)

\* legal() returns a list that holds a move with this flag
Emits(P, flag) ==
  /\ legal(P).outcome = "ok"
  /\ \E mv \in Range(legal(P).list) : MoveFlag(mv) = flag

\* the squares of the first rank of the side `us` on the given files
HomeRank(us, files) == {Sq(f, IF us = WHITE THEN 0 ELSE 7) : f \in files}

\* C15: legal() emits CASTLE_000, king to c1 (c8), exactly when the side to
\* move is not in check, has its queen-side right, b1, c1, d1 (b8, c8, d8)
\* are empty and c1, d1 (c8, d8) are not in the danger map; an attack on
\* the b-file square alone does not prevent it.
C15_LongCastle ==
  status = "ok" =>
    /\ Emits(Pos, CASTLE_000) <=>
         /\ ~in_check(Pos)
         /\ can_castle(actual_state(Pos), LONG[Turn(Pos) + 1])
         /\ HomeRank(Turn(Pos), {1, 2, 3}) \cap occupancy(Pos) = {}
         /\ HomeRank(Turn(Pos), {2, 3}) \cap danger = {}
    /\ \A mv \in Range(legal(Pos).list) :
         MoveFlag(mv) = CASTLE_000 =>
           /\ MoveFrom(mv) = king(Pos, Turn(Pos))
           /\ MoveTo(mv) \in HomeRank(Turn(Pos), {2})

\* C16: legal() emits CASTLE_00, king to g1 (g8), exactly when checkmask
\* is all-ones, the side to move has its king-side right, and f1, g1
\* (f8, g8) are empty and not in the danger map.
C16_ShortCastle ==
  status = "ok" =>
    /\ Emits(Pos, CASTLE_00) <=>
         /\ checkmask = U64_MAX
         /\ can_castle(actual_state(Pos), SHORT[Turn(Pos) + 1])
         /\ HomeRank(Turn(Pos), {5, 6}) \cap occupancy(Pos) = {}
         /\ HomeRank(Turn(Pos), {5, 6}) \cap danger = {}
    /\ \A mv \in Range(legal(Pos).list) :
         MoveFlag(mv) = CASTLE_00 =>
           /\ MoveFrom(mv) = king(Pos, Turn(Pos))
           /\ MoveTo(mv) \in HomeRank(Turn(Pos), {6})

\* the piece letters of a FEN's placement field
Letters(f) == {ch \in Range(Flatten(f.ranks)) : ch \notin DOMAIN Digits}

\* a FEN without a king of either color or with an unknown piece letter
InvalidFen(f) ==
  \/ "K" \notin Letters(f)
  \/ "k" \notin Letters(f)
  \/ \E ch \in Letters(f) : from_char(ch) = NONE

\* C17: Position::from_str of a FEN that lacks a king of either color or
\* holds an unknown piece letter returns an Err to the caller; it does not
\* abort.
C17_InvalidFenIsErr ==
  (lastOp = "from_str" /\ InvalidFen(arg)) => ret = "Err"

\* C18: perft is 1 at depth 0 and otherwise the sum over the moves m of
\* legal() of perft at depth - 1 after make_move(m), followed by
\* undo_move(m); for the standard start position at depth 3 it returns
\* 8,902.
C18_PerftStartDepth3 ==
  lastOp = "return" =>
    /\ arg.depth = 0 => ret = 1
    /\ arg.depth = 3 => ret = 8902

\* perft of the start position at depth 3 has returned
C18_Witness ==
  /\ lastOp = "return"
  /\ arg.fen = FenStart
  /\ arg.depth = 3
  /\ ret > 1

\* the i-th lowest square of a bitboard
NthLowest(bb, i) == CHOOSE x \in bb : Cardinality({y \in bb : y < x}) = i - 1

\* the moves a call emits, in order: extend from the lowest to the highest
\* destination, add_promotions knight, bishop, rook, queen
Emission(call) ==
  CASE call.op = "add" -> <<MoveNew(call.from, call.to, call.flag)>>
    [] call.op = "extend" ->
         [i \in 1..Cardinality(call.to) |->
            MoveNew(call.from, NthLowest(call.to, i), call.flag)]
    [] call.op = "add_promotions" ->
         [i \in 1..4 |->
            MoveNew(call.from, call.to, (IF call.flag THEN PC_N ELSE PR_N) + (i - 1))]

\* C19: iterating a MoveList yields exactly count() moves, in the order in
\* which add, extend and add_promotions emitted them.
C19_IterationInEmissionOrder ==
  lastOp = "end" =>
    /\ Len(ret) = MoveList_count(list)
    /\ ret = Flatten([i \in 1..Len(arg) |-> Emission(arg[i])])

\* the iteration of a list built by an extend over several squares, an
\* add_promotions and an add of a1a1 has ended
C19_Witness ==
  /\ lastOp = "end"
  /\ \E i, j, k \in 1..Len(arg) :
       /\ arg[i].op = "extend" /\ Cardinality(arg[i].to) > 1
       /\ arg[j].op = "add_promotions"
       /\ arg[k].op = "add" /\ MoveNew(arg[k].from, arg[k].to, arg[k].flag) = MOVE_EMPTY
  /\ Len(ret) = 9

\* the moves Move::new builds from the arguments of MoveArgs
BuiltMoves == {MoveNew(a[1], a[2], a[3]) : a \in MoveArgs}

\* C20: Move::new(from, to, flag) gives from, to and flag back through the
\* accessors for every square pair and every defined flag, different
\* arguments build different moves, and no move that legal() emits equals
\* Move::EMPTY.
C20_MoveRoundTrip ==
  /\ lastOp = "Move::new" =>
       /\ MoveFrom(ret) = arg[1]
       /\ MoveTo(ret) = arg[2]
       /\ MoveFlag(ret) = arg[3]
       /\ Cardinality(BuiltMoves) = Cardinality(MoveArgs)
  /\ ((lastOp \in {"init", "make", "undo"} /\ status = "ok") \/ lastOp = "legal") =>
       \A L \in {legal(Pos)} : \A i \in 1..Len(L.list) : L.list[i] # MOVE_EMPTY

\* Move::new(63, 63, PC_Q) has been built
C20_Witness ==
  /\ lastOp = "Move::new"
  /\ arg = <<H8, H8, PC_Q>>
  /\ ret = 57343

\* C21: from a freshly constructed position, 216 consecutive make_move
\* calls with legal moves stay within the history storage.
C21_HistoryCapacity ==
  (lastOp = "make" /\ ops <= HISTORY_LEN) => status = "ok"

\* the captures and promotion captures legal() lists for the pawns of the
\* side to move that stand on a diagonal pin ray
PinnedPawnCaptures(P) ==
  {mv \in Range(legal(P).list) :
     /\ MoveFrom(mv) \in P.pieces_bb[Turn(P)][PAWN] \cap P.pin_d12
     /\ MoveFlag(mv) \in {CAPTURE, PC_N, PC_B, PC_R, PC_Q}}

\* C22: in single check, a capture or promotion capture of a diagonally
\* pinned pawn is emitted by legal() only if its destination lies in both
\* pin_d12 and checkmask.
C22_PinnedPawnCaptureInCheck ==
  (status = "ok" /\ Cardinality(Checkers(Pos)) = 1) =>
    \A mv \in PinnedPawnCaptures(Pos) : MoveTo(mv) \in pin_d12 \cap checkmask

\* the pawns of the side to move that may capture en passant by the rules
\* of chess while the pawn that just double-pushed is the only piece that
\* gives check
EpResolvers(P) ==
  LET state == actual_state(P)
      us == state.turn
      pushed == state.ep + (IF us = WHITE THEN -8 ELSE 8)
  IN IF state.ep = NONE \/ Checkers(P) # {pushed} THEN {}
     ELSE {c \in P.pieces_bb[us][PAWN] \ Pinned(P) :
             MoveNew(c, state.ep, EN_PASSANT) \in RefLegal(P)}

\* C23: when the pawn that just double-pushed is the only piece giving
\* check, legal() returns a list that holds the EN_PASSANT capture of it by
\* each unpinned pawn that attacks the en passant target without exposing
\* its king, with or without an enemy rook or queen on the king's rank.
C23_EnPassantResolvesCheck ==
  status = "ok" =>
    \A c \in EpResolvers(Pos) :
      /\ legal(Pos).outcome = "ok"
      /\ MoveNew(c, actual_state(Pos).ep, EN_PASSANT) \in Range(legal(Pos).list)

\* the positions in the list of the moves with the flag EN_PASSANT
EpIndexes(l) == {i \in 1..Len(l) : MoveFlag(l[i]) = EN_PASSANT}

\* the pawns of the side to move that may capture en passant by the rules
\* of chess
EpCapturers(P) ==
  {c \in P.pieces_bb[Turn(P)][PAWN] :
     MoveNew(c, actual_state(P).ep, EN_PASSANT) \in RefLegal(P)}

\* C24: every EN_PASSANT move that legal() emits goes from a pawn of the
\* side to move that attacks the en passant target to that target, and the
\* list holds exactly one such move per pawn that may capture.
C24_EnPassantMoves ==
  status = "ok" =>
    \A L \in {legal(Pos)} :
      /\ \A i \in EpIndexes(L.list) :
           /\ MoveTo(L.list[i]) = actual_state(Pos).ep
           /\ MoveFrom(L.list[i]) \in
                 PAWN_ATTACKS[1 - Turn(Pos)][MoveTo(L.list[i])] \cap pieces_bb[Turn(Pos)][PAWN]
      /\ \A c \in EpCapturers(Pos) :
           Cardinality({i \in EpIndexes(L.list) : MoveFrom(L.list[i]) = c}) = 1

\* the squares strictly between two squares of one rank, file or diagonal,
\* counted on the board
SquaresBetween(a, b) ==
  LET df == File(b) - File(a)
      dr == Rank(b) - Rank(a)
  IN IF ~(df = 0 \/ dr = 0 \/ df = dr \/ df = -dr) THEN {}
     ELSE {q \in Squares \ {a, b} :
             /\ (File(q) - File(a)) * dr = (Rank(q) - Rank(a)) * df
             /\ (File(q) - File(a)) * (File(q) - File(b)) <= 0
             /\ (Rank(q) - Rank(a)) * (Rank(q) - Rank(b)) <= 0}

WithoutKing(P) == [P.pieces_bb EXCEPT ![Turn(P)][KING] = {}]

\* the king moves legal() emits: the first two extends of its list
KingMoves(P) == Range(legal_king(P))

\* C26: around the king of the side to move, danger holds the squares the
\* enemy attacks with that king taken off the board, and after no king move
\* that legal() emits is the king attacked: not on the far side of the king
\* on the ray of a checking slider, and not on the square of a defended
\* piece.
C26_KingMovesSafe ==
  status = "ok" =>
    /\ \A sq \in KING_MASK[king(Pos, Turn(Pos))] :
         sq \in danger <=> RefAttacked(WithoutKing(Pos), sq, 1 - Turn(Pos))
    /\ \A mv \in KingMoves(Pos) :
         ~RefAttacked(RefAfter(pieces_bb, Turn(Pos), KING, MoveFrom(mv), MoveTo(mv), MoveFlag(mv)),
                      MoveTo(mv), 1 - Turn(Pos))

\* a slider checks the king, the empty square behind the king on its ray is
\* attacked only once the king is taken off the board, and an enemy piece
\* next to the king is defended
C26_Witness ==
  /\ status = "ok"
  /\ \E s \in Checkers(Pos) : \E t \in KING_MASK[king(Pos, Turn(Pos))] \ occupancy(Pos) :
       /\ king(Pos, Turn(Pos)) \in SquaresBetween(s, t)
       /\ ~RefAttacked(pieces_bb, t, 1 - Turn(Pos))
       /\ t \in danger
  /\ KING_MASK[king(Pos, Turn(Pos))] \cap Enemy(Pos) \cap danger # {}
  /\ KingMoves(Pos) # {}

(***************************************************************************)
(* make_move driven with the moves the rules of chess allow (RefLegal), so *)
(* that en passant captures are made as well.                              *)
(***************************************************************************)
\* pos.make_move(mv) for a move mv the rules allow
RulesMake ==
  /\ status = "ok"
  /\ ply < MaxPly
  /\ \E mv \in RefLegal(Pos) :
        \E r \in {make_move(Pos, mv)} :
           /\ SetPos(r.p)
           /\ status' = r.err
           /\ moves' = Append(moves, mv)
           /\ snaps' = Append(snaps, Pos)
  /\ popped' = popped
  /\ lastOp' = "make"
  /\ ops' = ops + 1
  /\ UNCHANGED callVars

RulesNext == RulesMake

RulesSpec == Init /\ [][RulesNext]_vars

\* the frame make_move started from
FrameBefore == actual_state(snaps[Len(snaps)])

\* C27: after make_move(m) the halfmove clock is 0 if a pawn moved or m is
\* a capture (CAPTURE, EN_PASSANT, PC_*), otherwise the previous clock plus
\* 1; the fullmove counter grows by 1 exactly after a move of Black.
C27_Clocks ==
  (lastOp = "make" /\ status = "ok") =>
    /\ actual_state(Pos).hm =
         IF \/ MoveFrom(LastMove) \in snaps[Len(snaps)].pieces_bb[FrameBefore.turn][PAWN]
            \/ MoveFlag(LastMove) \in {CAPTURE, EN_PASSANT, PC_N, PC_B, PC_R, PC_Q}
           THEN 0 ELSE FrameBefore.hm + 1
    /\ actual_state(Pos).fm =
         FrameBefore.fm + (IF FrameBefore.turn = BLACK THEN 1 ELSE 0)

\* Black has answered a piece move with a piece move: the clock is at 2 and
\* the fullmove counter has grown
C27_Witness ==
  /\ lastOp = "make" /\ status = "ok"
  /\ ply = 2
  /\ FrameBefore.turn = BLACK
  /\ actual_state(Pos).hm = 2
  /\ actual_state(Pos).fm = history[0].fm + 1

\* C28: after construction from a FEN and after every make_move and
\* undo_move, the cached checkmask, pin_hv, pin_d12 and danger are what
\* check_and_pin() and attacks() compute from the current bitboards and the
\* current frame's side to move.
C28_CachedMasksFresh ==
  status = "ok" =>
    /\ <<checkmask, pin_hv, pin_d12>> = check_and_pin(Pos)
    /\ danger = attacks(Pos)

\* an undo_move has brought back a position with a check and a diagonal pin
C28_Witness ==
  /\ lastOp = "undo" /\ status = "ok"
  /\ checkmask # U64_MAX
  /\ pin_d12 # {}
  /\ danger = attacks(popped.pos)

\* C29: legal() returns a list in which no move (from, to, flag) occurs
\* twice, also when en passant is available.
C29_NoDuplicateMoves ==
  status = "ok" =>
    \A L \in {legal(Pos)} :
      /\ L.outcome = "ok"
      /\ \A i, j \in 1..Len(L.list) : L.list[i] = L.list[j] => i = j

\* C30: every history frame above ply is the empty State, and the frame a
\* make_move creates holds a captured piece only for a capturing move and
\* an en passant target only for a double push.
C30_FramesAbovePlyEmpty ==
  status = "ok" =>
    /\ \A i \in (ply + 1)..(HISTORY_LEN - 1) : history[i] = StateNew
    /\ lastOp = "make" =>
         /\ MoveFlag(LastMove) \notin {CAPTURE, EN_PASSANT, PC_N, PC_B, PC_R, PC_Q} =>
              history[ply].captured = NONE
         /\ MoveFlag(LastMove) # DOUBLE_PUSH => history[ply].ep = NONE

\* a capture was made and undone at ply 1, and a quiet move has been made
\* at that ply since
C30_Witness ==
  /\ lastOp = "make" /\ status = "ok"
  /\ ply = 1
  /\ popped.mv # NONE /\ MoveFlag(popped.mv) = CAPTURE
  /\ popped.pos.ply = 0
  /\ MoveFlag(LastMove) = QUIET
  /\ history[1].captured = NONE
  /\ history[2] = StateNew

\* the squares a move may change: from and to, the rook's start and target
\* for a castle, the captured pawn's square for EN_PASSANT
TouchedSquares(mv, us) ==
  {MoveFrom(mv), MoveTo(mv)}
    \cup (IF MoveFlag(mv) = CASTLE_00 THEN {MoveFrom(mv) + 3, MoveFrom(mv) + 1} ELSE {})
    \cup (IF MoveFlag(mv) = CASTLE_000 THEN {MoveFrom(mv) - 4, MoveFrom(mv) - 1} ELSE {})
    \cup (IF MoveFlag(mv) = EN_PASSANT
            THEN {IF us = WHITE THEN MoveTo(mv) - 8 ELSE MoveTo(mv) + 8} ELSE {})

\* C31: make_move(m) leaves the piece and color of every square other than
\* m's from and to, a castle's rook squares and the pawn captured en passant
\* as they were, and leaves the history frames 0..ply-1 unchanged.
C31_MakeMoveFrame ==
  (lastOp = "make" /\ status = "ok") =>
    /\ \A sq \in Squares \ TouchedSquares(LastMove, FrameBefore.turn) :
         Occupants(Pos, sq) = Occupants(snaps[Len(snaps)], sq)
    /\ \A i \in 0..(ply - 1) : history[i] = snaps[Len(snaps)].history[i]

\* an en passant capture has been made: the frame of the double push still
\* holds its en passant target
C31_Witness ==
  /\ lastOp = "make" /\ status = "ok"
  /\ MoveFlag(LastMove) = EN_PASSANT
  /\ history[ply - 1].ep = MoveTo(LastMove)
  /\ Occupants(Pos, MoveTo(LastMove)) # {}

\* the entries among the first count() of a list whose flag is in flags
Entries(l, flags) ==
  {i \in 0..(MoveList_count(l) - 1) : MoveFlag(l.array[i]) \in flags}

\* C32: count_captures() equals the number of moves of the list for which
\* is_capture() holds, and count_promotions, count_captures, count_enpassants
\* and count_castles each count among exactly the first count() entries.
C32_Counts ==
  lastOp = "count" =>
    /\ popped.captures =
         Cardinality({i \in 0..(MoveList_count(list) - 1) : is_capture(list.array[i])})
    /\ popped.promotions = Cardinality(Entries(list, PR_N..PC_Q))
    /\ popped.enpassants = Cardinality(Entries(list, {EN_PASSANT}))
    /\ popped.castles = Cardinality(Entries(list, {CASTLE_00, CASTLE_000}))

\* C33: MoveList::get(i) returns the i-th emitted move for every index
\* i < count(), and aborts with "Out of bounds" only for i >= count().
C33_Get ==
  lastOp = "get" =>
    /\ popped.i < MoveList_count(list) =>
         /\ status = "ok"
         /\ popped.item = Flatten([k \in 1..Len(arg) |-> Emission(arg[k])])[popped.i + 1]
    /\ status = "Out of bounds" => popped.i >= MoveList_count(list)

=============================================================================
